---- MODULE Spec2Model ----
(***************************************************************************)
(* Model of the ImapFlow client contract documented by imapflow.com: the   *)
(* connection lifecycle, the mailbox lock, the command pipeline of one     *)
(* connection, the streaming fetch() iterator and the usage patterns of    *)
(* the example programs.                                                   *)
(***************************************************************************)
EXTENDS Integers, Sequences, FiniteSets, TLC

\* ---------------------------------------------------------------- bounds
NumTasks == 2      \* logical tasks (async functions) sharing one client
MaxMsgs  == 2      \* messages a single fetch can deliver
MaxQueue == 1      \* commands waiting behind the connection
MaxUid == 3        \* highest UID, and number of messages ever stored
MaxValidity == 2   \* UIDVALIDITY periods
MaxTotal == 5      \* messages in the mailbox of batchProcessMessages
MaxBatch == 3      \* its batchSize
MaxNodes == 4      \* nodes of a bodyStructure
MaxLimit == 3      \* limit of getMessages

Tasks == 1..NumTasks
\* the task that runs watchAndFetch
Watcher == CHOOSE t \in Tasks : \A u \in Tasks : t <= u
Paths == {"INBOX", "Sent"}
NoMailbox == "none"
NotFetched == MaxMsgs + 1

\* ---------------------------------------------------------------- state
VARIABLES
    connState,   \* connection state of the lifecycle diagram
    mailbox,     \* client.mailbox.path, NoMailbox when client.mailbox is null
    selectedBy,  \* how the current mailbox was selected: none / lock / open
    held,        \* held[t]: path of the lock handle task t holds
    lockQueue,   \* pending getMailboxLock() calls, oldest first
    running,     \* the command occupying the connection
    cmdQueue,    \* commands issued and not yet started, oldest first
    pc,          \* what each task is awaiting
    inLoop,      \* inLoop[t]: t is inside a for-await loop over fetch()
    todo,        \* fetched messages the lock holder has still to process;
                 \* NotFetched until it has fetched under its lock
    handler,     \* the Watcher's 'exists' handler is registered
    script,      \* the program the tasks run: any calls, the
                 \* collect-then-process pattern of fetchUnread, or the
                 \* watcher of watchAndFetch
    err,         \* the error code of the latest failed call on a client that
                 \* is not connected, "none" once connect() is called again
    channel,     \* the socket of the connection: "none", "plain" or "tls"
    options,     \* the secure, doSTARTTLS and disableAutoIdle options the
                 \* client was built with
    starttls,    \* the server supports STARTTLS
    count,       \* number of messages in the mailbox the fetches read
    job,         \* the messages of the running fetch or fetchAll: its range,
                 \* those the server has still to send, those the client got
    result,      \* result[k]: what the last finished call of k produced
    connected,   \* this.connected of the SimpleEmailClient
    listener,    \* a 'close' listener is registered on the client
    event,       \* the mailbox event emitted last
    store,       \* INBOX on the server: its messages in sequence order, each
                 \* with its UID, and the mailbox's UIDNEXT and UIDVALIDITY
    cache,       \* the application's cached UIDs and cached uidValidity
    used,        \* the cached UID the application used last
    batch,       \* batchProcessMessages: its position and local variables
    tree,        \* a bodyStructure: the node at each position, a position
                 \* being the child indices on the way from the root
    outcome,     \* the last call on the bodyStructure and what it returned
    gm,          \* SimpleEmailClient.getMessages: its position and variables
    routine,     \* routine[t]: the try/finally routine task t is in
    releases     \* releases[t]: release() calls since t last called
                 \* getMailboxLock() in a routine

\* the state of the example functions
later == <<batch, tree, outcome, gm>>

\* what only the mailbox events change
extra == <<event, store, cache, used, later>>

\* the state of the usage patterns, which the client operations leave alone
other == <<routine, releases, options, starttls, count, job, result,
           connected, listener, extra>>

\* the part of it the try/finally routines leave alone
setup == <<options, starttls, count, job, result, connected, listener, extra>>

\* the same without the mailbox events
setupOnly == <<options, starttls, count, job, result, connected, listener,
               later>>

\* what the example functions leave alone
fixed == <<routine, releases, options, starttls, count, job, result,
           connected, listener, event, store, cache, used>>

\* what batchProcessMessages leaves alone
settled == <<fixed, tree, outcome, gm>>

\* the variables of the client
clientVars == <<connState, mailbox, selectedBy, held, lockQueue, running,
                cmdQueue, pc, inLoop, todo, handler, script, err, channel>>

vars == <<connState, mailbox, selectedBy, held, lockQueue, running, cmdQueue,
          pc, inLoop, todo, handler, script, err, channel, other>>

ConnStates == {"Disconnected", "Connecting", "Authenticated", "Selected", "Idling"}

\* states in which the client accepts a command
Usable == {"Authenticated", "Selected", "Idling"}

\* states in which a mailbox is open
Open == {"Selected", "Idling"}

\* commands that work on the selected mailbox
MailboxCmds == {"fetch", "fetchAll", "messageFlagsAdd"}

CmdKinds == MailboxCmds \cup {"mailboxOpen", "mailboxClose", "logout"}

\* a command: who called it, which method, whether the caller awaits it,
\* whether the caller held the mailbox lock when calling, and for a running
\* fetch the messages still to deliver
NoCmd == [task |-> Watcher, kind |-> "none", path |-> NoMailbox,
          awaited |-> FALSE, locked |-> FALSE, left |-> 0]

Holders == {t \in Tasks : held[t] # NoMailbox}

Waiters == {lockQueue[i].task : i \in DOMAIN lockQueue}

\* the tasks follow the collect-then-process pattern
Scripted == script = "collect"

\* the tasks run watchAndFetch next to other users of the lock: they connect,
\* lock, watch, release and log out
Watching == script = "watch"

InFlight == {cmdQueue[i] : i \in DOMAIN cmdQueue} \cup
            (IF running = NoCmd THEN {} ELSE {running})

\* the options of the examples: { secure: true }, doSTARTTLS left undefined,
\* disableAutoIdle false by default
DefaultOptions ==
    [secure |-> TRUE, doSTARTTLS |-> "undefined", disableAutoIdle |-> FALSE]

\* the option sets a client can be built with: secure: true together with
\* doSTARTTLS: true is invalid and throws
OptionSets ==
    {o \in [secure : BOOLEAN, doSTARTTLS : {"true", "false", "undefined"},
             disableAutoIdle : BOOLEAN] :
        ~(o.secure /\ o.doSTARTTLS = "true")}

\* a mailbox without messages in its first UIDVALIDITY period; made counts
\* the messages ever stored and names them
EmptyStore == [msgs |-> <<>>, uidNext |-> 1, uidValidity |-> 1, made |-> 0]

\* nothing cached yet; under is the UIDVALIDITY the UIDs were fetched under
NoCache == [validity |-> 0, uids |-> {}, under |-> 0]

\* no cached UID used yet
NoUse == [uid |-> 0, under |-> 0, at |-> 0]

\* a node of a bodyStructure; "none" stands for a property that is not set
Kinds ==
    { [type |-> "multipart", subtype |-> "mixed", disposition |-> "none"],
      [type |-> "text", subtype |-> "plain", disposition |-> "none"],
      [type |-> "text", subtype |-> "plain", disposition |-> "attachment"],
      [type |-> "image", subtype |-> "png", disposition |-> "none"],
      [type |-> "image", subtype |-> "png", disposition |-> "inline"],
      [type |-> "none", subtype |-> "none", disposition |-> "none"] }

\* the bodyStructure of a message with a single text part
NoTree == [p \in {<<>>} |-> [type |-> "text", subtype |-> "plain",
                              disposition |-> "none"]]

\* nothing has been called on the bodyStructure
NoOutcome == [fn |-> "none"]

\* null
Null == <<>>

\* getMessages has not been called; range is the range it fetched, <<>> if
\* none, fetches the number of its fetchAll calls, releases that of its
\* release() calls
NoCall == [at |-> "out", limit |-> 1, total |-> 0, range |-> <<>>,
           fetches |-> 0, releases |-> 0]

\* batchProcessMessages has not been called
NoBatch == [at |-> "out", batchSize |-> 1, total |-> 0, start |-> 0,
            ranges |-> <<>>]

\* the mailbox events
MailboxEvents == {"exists", "expunge", "flags"}

\* no mailbox event has been emitted yet
NoEvent == [name |-> "none", path |-> NoMailbox, n |-> 0]

\* the two ways to fetch the messages of a range
FetchKinds == {"fetch", "fetchAll"}

\* the ranges the calls are made with, as sets of sequence numbers: '1:*', '1'
Ranges == {1..MaxMsgs, {1}}

\* no fetch or fetchAll is running
NoJob == [range |-> {}, stream |-> <<>>, got |-> <<>>]

\* no call has finished yet
NoResult == [range |-> {}, msgs |-> <<>>]

\* the routines with a guarded body: getMessages, markAsRead and moveToTrash
\* of SimpleEmailClient, and fetchUnread
Routines == {"fetchUnread", "getMessages", "markAsRead", "moveToTrash"}

\* a task outside every routine
NoRoutine == [name |-> "none", at |-> "out", n |-> 0, rejected |-> FALSE]

Init ==
    /\ routine = [t \in Tasks |-> NoRoutine]
    /\ releases = [t \in Tasks |-> 0]
    /\ err = "none"
    /\ channel = "none"
    /\ options = DefaultOptions
    /\ starttls = TRUE
    /\ count = 0
    /\ job = NoJob
    /\ result = [k \in FetchKinds |-> NoResult]
    /\ connected = FALSE
    /\ listener = FALSE
    /\ event = NoEvent
    /\ store = EmptyStore
    /\ cache = NoCache
    /\ used = NoUse
    /\ batch = NoBatch
    /\ tree = NoTree
    /\ outcome = NoOutcome
    /\ gm = NoCall
    /\ connState = "Disconnected"
    /\ mailbox = NoMailbox
    /\ selectedBy = "none"
    /\ held = [t \in Tasks |-> NoMailbox]
    /\ lockQueue = <<>>
    /\ running = NoCmd
    /\ cmdQueue = <<>>
    /\ pc = [t \in Tasks |-> "ready"]
    /\ inLoop = [t \in Tasks |-> FALSE]
    /\ todo = NotFetched
    /\ handler = FALSE
    /\ script \in {"any", "collect", "watch"}

\* ------------------------------------------------------ connection lifecycle

\* faulty variant of Connect: the client counts as logged in at once
ConnectNoHandshake(t) ==
    /\ pc[t] = "ready"
    /\ connState = "Disconnected"
    /\ connState' = "Authenticated"
    /\ channel' = IF options.secure THEN "tls" ELSE "plain"
    /\ UNCHANGED <<mailbox, selectedBy, held, lockQueue, running, cmdQueue,
                   pc, inLoop, todo, handler, script, err, other>>

\* faulty variant of Connect: the client reconnects on its own, no caller
\* awaits the connection
ConnectOnItsOwn(t) ==
    /\ connState = "Disconnected"
    /\ connState' = "Connecting"
    /\ channel' = IF options.secure THEN "tls" ELSE "plain"
    /\ UNCHANGED <<mailbox, selectedBy, held, lockQueue, running, cmdQueue,
                   pc, inLoop, todo, handler, script, err, other>>

\* await client.connect(): Disconnected --> Connecting
Connect(t) ==
    /\ pc[t] = "ready"
    /\ connState = "Disconnected"
    /\ connState' = "Connecting"
    /\ pc' = [pc EXCEPT ![t] = "waitConn"]
    /\ err' = "none"
    /\ channel' = IF options.secure THEN "tls" ELSE "plain"
    /\ UNCHANGED <<mailbox, selectedBy, held, lockQueue, running, cmdQueue,
                   inLoop, todo, handler, script, other>>

\* the connection is upgraded to TLS with STARTTLS, when the options ask for
\* it or leave it open and the server supports it
Upgrade ==
    /\ connState = "Connecting"
    /\ channel = "plain"
    /\ options.doSTARTTLS # "false"
    /\ starttls
    /\ channel' = "tls"
    /\ UNCHANGED <<connState, mailbox, selectedBy, held, lockQueue, running,
                   cmdQueue, pc, inLoop, todo, handler, script, err, other>>

\* doSTARTTLS: true and the server does not support STARTTLS: connect() fails
UpgradeFailure ==
    /\ connState = "Connecting"
    /\ channel = "plain"
    /\ options.doSTARTTLS = "true"
    /\ ~starttls
    /\ connState' = "Disconnected"
    /\ channel' = "none"
    /\ err' = "noSTARTTLS"
    /\ pc' = [t \in Tasks |-> IF pc[t] = "waitConn" THEN "ready" ELSE pc[t]]
    /\ UNCHANGED <<mailbox, selectedBy, held, lockQueue, running, cmdQueue,
                   inLoop, todo, handler, script, other>>

\* faulty variant of CanAuthenticate: the login does not wait for the upgrade
CanAuthenticateAtOnce == TRUE

\* when the login is attempted: over TLS, or in plain text when STARTTLS is
\* switched off, or left open and not supported by the server
CanAuthenticate ==
    \/ channel = "tls"
    \/ options.doSTARTTLS = "false"
    \/ options.doSTARTTLS = "undefined" /\ ~starttls

\* SimpleEmailClient.connect() after its await client.connect(): the flag is
\* set and the 'close' listener registered, before any other event is handled
AfterConnect ==
    IF script = "client"
    THEN connected' = TRUE /\ listener' = TRUE
    ELSE UNCHANGED <<connected, listener>>

\* Connecting --> Authenticated: logged in, no mailbox
AuthSuccess ==
    /\ connState = "Connecting"
    /\ CanAuthenticate
    /\ connState' = "Authenticated"
    /\ pc' = [t \in Tasks |-> IF pc[t] = "waitConn" THEN "ready" ELSE pc[t]]
    /\ AfterConnect
    /\ UNCHANGED <<mailbox, selectedBy, held, lockQueue, running, cmdQueue,
                   inLoop, todo, handler, script, err, channel, routine,
                   releases, options, starttls, count, job, result, extra>>

\* faulty variant of AuthFailure: connect() rejects but the client counts as
\* logged in
AuthFailureLoggedIn ==
    /\ connState = "Connecting"
    /\ connState' = "Authenticated"
    /\ pc' = [t \in Tasks |-> IF pc[t] = "waitConn" THEN "ready" ELSE pc[t]]
    /\ err' = "authenticationFailed"
    /\ UNCHANGED <<mailbox, selectedBy, held, lockQueue, running, cmdQueue,
                   inLoop, todo, handler, script, channel, other>>

\* Connecting --> Disconnected: connect() rejects with authenticationFailed
AuthFailure ==
    /\ connState = "Connecting"
    /\ CanAuthenticate
    /\ connState' = "Disconnected"
    /\ channel' = "none"
    /\ pc' = [t \in Tasks |-> IF pc[t] = "waitConn" THEN "ready" ELSE pc[t]]
    /\ err' = "authenticationFailed"
    /\ UNCHANGED <<mailbox, selectedBy, held, lockQueue, running, cmdQueue,
                   inLoop, todo, handler, script, other>>

\* the tasks whose pending call fails when the connection ends now
Failing ==
    {t \in Tasks : pc[t] \in {"waitConn", "waitLock", "waitCmd", "fetchNext"}}
        \ (IF running.kind = "logout" THEN {running.task} ELSE {})

\* faulty variant of CloseEvent: only a logout tells the listeners
CloseEventOnLogout ==
    connected' = IF listener /\ running.kind = "logout" THEN FALSE ELSE connected

\* the 'close' event: the registered listener runs, this.connected = false
CloseEvent ==
    connected' = IF listener THEN FALSE ELSE connected

\* The connection ends: nothing is selected, nothing executes any more and
\* every call pending on the connection ends with it (connect(), idle() and the
\* logout() that closed it return, the others fail with EConnectionClosed,
\* which also leaves a fetch loop awaiting its next message). Lock handles
\* stay with their holders.
EndConnection ==
    /\ connState' = "Disconnected"
    /\ mailbox' = NoMailbox
    /\ selectedBy' = "none"
    /\ running' = NoCmd
    /\ cmdQueue' = <<>>
    /\ lockQueue' = <<>>
    /\ pc' = [u \in Tasks |-> IF pc[u] = "fetchBody" THEN pc[u] ELSE "ready"]
    /\ inLoop' = [u \in Tasks |-> pc[u] = "fetchBody"]
    /\ err' = IF Failing = {} THEN "none" ELSE "EConnectionClosed"
    /\ channel' = "none"
    /\ CloseEvent
    /\ UNCHANGED <<held, todo, handler, script, routine, releases, options,
                   starttls, count, job, result, listener, extra>>

\* faulty variant of CallDisconnected: the command is queued for a connection
\* that does not exist
CallDisconnectedQueues(t, k) ==
    /\ pc[t] = "ready"
    /\ connState = "Disconnected"
    /\ cmdQueue' = Append(cmdQueue,
            [task |-> t, kind |-> k, path |-> NoMailbox, awaited |-> TRUE,
             locked |-> held[t] # NoMailbox, left |-> 0])
    /\ pc' = [pc EXCEPT ![t] = "waitCmd"]
    /\ UNCHANGED <<connState, mailbox, selectedBy, held, lockQueue, running,
                   inLoop, todo, handler, script, err, channel, other>>

\* a task calls a client method other than connect() while the client is
\* Disconnected: the call fails with NoConnection
CallDisconnected(t, k) ==
    /\ pc[t] = "ready"
    /\ connState = "Disconnected"
    /\ err' = "NoConnection"
    /\ UNCHANGED <<connState, mailbox, selectedBy, held, lockQueue, running,
                   cmdQueue, pc, inLoop, todo, handler, script, channel, other>>

\* client.close(): immediate disconnection without LOGOUT
Close(t) ==
    /\ pc[t] = "ready"
    /\ connState # "Disconnected"
    /\ EndConnection

\* the connection drops (network issue, server timeout)
Drop ==
    /\ connState # "Disconnected"
    /\ EndConnection

\* ------------------------------------------------------------ mailbox lock

\* faulty variant of Enqueued: the newest call is served first
EnqueuedInFront(q, w) == <<w>> \o q

\* pending getMailboxLock() calls are served in the order they were made
Enqueued(q, w) == Append(q, w)

\* let lock = await client.getMailboxLock(p): the caller is suspended until
\* the lock is granted
GetMailboxLock(t, p) ==
    /\ pc[t] = "ready"
    /\ connState \in Usable
    /\ Scripted => held[t] = NoMailbox
    /\ lockQueue' = Enqueued(lockQueue, [task |-> t, path |-> p])
    /\ pc' = [pc EXCEPT ![t] = "waitLock"]
    /\ UNCHANGED <<connState, mailbox, selectedBy, held, running, cmdQueue,
                   inLoop, todo, handler, script, err, channel, other>>

\* faulty variants of CanGrant: no exclusion at all; a second handle while one
\* is out; a lock that goes stale with its connection; a re-entrant lock
CanGrantNoExclusion == TRUE

CanGrantSecondHandle == Cardinality(Holders) <= 1

CanGrantStale == Holders = {} \/ connState = "Authenticated"

CanGrantReentrant == Holders \subseteq {Head(lockQueue).task}

\* when may the oldest pending getMailboxLock() call return
CanGrant == Holders = {}

\* the oldest pending call gets the lock: the mailbox is selected
\* (Authenticated --> Selected) and the call returns the handle
GrantLock ==
    /\ lockQueue # <<>>
    /\ CanGrant
    /\ running = NoCmd
    /\ connState \in Usable
    /\ LET w == Head(lockQueue) IN
        /\ held' = [held EXCEPT ![w.task] = w.path]
        /\ mailbox' = w.path
        /\ pc' = [u \in Tasks |-> IF u = w.task \/ pc[u] = "waitIdle"
                                  THEN "ready" ELSE pc[u]]
    /\ lockQueue' = Tail(lockQueue)
    /\ connState' = "Selected"
    /\ selectedBy' = "lock"
    /\ todo' = NotFetched
    /\ UNCHANGED <<running, cmdQueue, inLoop, handler, script, err, channel, other>>

\* faulty variant of ReleasedState: the mailbox stays selected after release
ReleasedStateKeepsMailbox(s) == s

\* connection state after lock.release(): Selected --> Authenticated
ReleasedState(s) == IF s \in Open THEN "Authenticated" ELSE s

\* what release() does to the client
Unlock(t) ==
    /\ held' = [held EXCEPT ![t] = NoMailbox]
    /\ connState' = ReleasedState(connState)
    /\ mailbox' = IF connState \in Open THEN NoMailbox ELSE mailbox
    /\ selectedBy' = IF connState \in Open THEN "none" ELSE selectedBy
    /\ pc' = [u \in Tasks |-> IF pc[u] = "waitIdle" /\ connState = "Idling"
                              THEN "ready" ELSE pc[u]]
    /\ UNCHANGED <<lockQueue, running, cmdQueue, inLoop, todo, handler, script, err, channel>>

\* lock.release(): synchronous, called by the holder
Release(t) ==
    /\ pc[t] = "ready"
    /\ held[t] # NoMailbox
    /\ Scripted => todo = 0
    /\ Unlock(t)
    /\ UNCHANGED other

\* ------------------------------------------------------------ commands

\* faulty variant of FollowsPattern: the flag update is issued from inside the
\* fetch loop
FollowsPatternInLoop(t, k) ==
    /\ pc[t] \in {"ready", "fetchBody"}
    /\ held[t] # NoMailbox
    /\ \/ k \in {"fetch", "fetchAll"} /\ todo = NotFetched
       \/ k = "messageFlagsAdd" /\ todo \in 1..MaxMsgs

\* fetchUnread and the guide's "Collect First, Then Process": under the lock,
\* fetch once, then one flag update for each collected message
FollowsPattern(t, k) ==
    /\ pc[t] = "ready"
    /\ held[t] # NoMailbox
    /\ \/ k \in {"fetch", "fetchAll"} /\ todo = NotFetched
       \/ k = "messageFlagsAdd" /\ todo \in 1..MaxMsgs

\* a task calls a client method: the command queues behind the connection.
\* Awaiting it suspends the caller; fetch() hands out an async iterator and
\* the for-await loop awaits its first message. Inside a loop body fetchAll
\* stands for a further fetch.
IssueCmd(t, k, p) ==
    /\ pc[t] \in {"ready", "fetchBody"}
    /\ pc[t] = "fetchBody" => k # "fetch"
    /\ Watching => k = "logout"
    /\ connState \in Usable
    /\ k \in MailboxCmds => connState \in Open
    /\ (k = "mailboxOpen") = (p # NoMailbox)
    /\ Len(cmdQueue) < MaxQueue
    /\ Scripted => FollowsPattern(t, k)
    /\ cmdQueue' = Append(cmdQueue,
            [task |-> t, kind |-> k, path |-> p, awaited |-> TRUE,
             locked |-> held[t] # NoMailbox, left |-> 0])
    /\ pc' = [pc EXCEPT ![t] = IF k = "fetch" THEN "fetchNext" ELSE "waitCmd"]
    /\ inLoop' = [inLoop EXCEPT ![t] = inLoop[t] \/ k = "fetch"]
    /\ todo' = IF Scripted /\ k = "messageFlagsAdd" THEN todo - 1 ELSE todo
    /\ UNCHANGED <<connState, mailbox, selectedBy, held, lockQueue, running,
                   handler, script, err, channel, other>>

\* faulty variants of CanStart: commands pipelined without waiting; commands
\* interleaved with a streaming fetch
CanStartPipelined == TRUE

CanStartDuringFetch == running = NoCmd \/ running.kind = "fetch"

\* faulty variant of CanStart: a command waits for IDLE to end by itself
CanStartUnlessIdling == running = NoCmd /\ connState # "Idling"

\* faulty variant of CanStart: only a streaming fetch holds later commands back
CanStartUnlessFetch == running = NoCmd \/ running.kind # "fetch"

\* when may the oldest queued command be sent to the server
CanStart == running = NoCmd

\* the oldest queued command starts executing; a command breaks IDLE
\* (Idling --> Selected)
StartCmd ==
    /\ cmdQueue # <<>>
    /\ CanStart
    /\ connState \in Usable
    /\ LET c == Head(cmdQueue) IN
       \E n \in (IF c.kind = "fetch" /\ connState \in Open
                 THEN 0..MaxMsgs ELSE {0}) :
        running' = [c EXCEPT !.left = n]
    /\ cmdQueue' = Tail(cmdQueue)
    /\ connState' = IF connState = "Idling" THEN "Selected" ELSE connState
    /\ pc' = [u \in Tasks |-> IF pc[u] = "waitIdle" /\ connState = "Idling"
                              THEN "ready" ELSE pc[u]]
    /\ UNCHANGED <<mailbox, selectedBy, held, lockQueue, inLoop, todo, handler, script, err, channel, other>>

\* where an awaited command's caller continues
Resume(t) == IF inLoop[t] THEN "fetchBody" ELSE "ready"

\* the server answers the running command (anything but fetch and logout)
Complete ==
    /\ running # NoCmd
    /\ running.kind \notin {"fetch", "logout"}
    /\ LET c == running IN
        /\ connState' = CASE c.kind = "mailboxOpen" -> "Selected"
                          [] c.kind = "mailboxClose" /\ connState \in Open
                                -> "Authenticated"
                          [] OTHER -> connState
        /\ mailbox' = CASE c.kind = "mailboxOpen" -> c.path
                        [] c.kind = "mailboxClose" -> NoMailbox
                        [] OTHER -> mailbox
        /\ selectedBy' = CASE c.kind = "mailboxOpen" -> "open"
                           [] c.kind = "mailboxClose" -> "none"
                           [] OTHER -> selectedBy
        /\ pc' = IF c.awaited THEN [pc EXCEPT ![c.task] = Resume(c.task)] ELSE pc
        /\ \E n \in (IF Scripted /\ c.kind = "fetchAll" THEN 0..MaxMsgs ELSE {todo}) :
              todo' = n
    /\ running' = NoCmd
    /\ UNCHANGED <<held, lockQueue, cmdQueue, inLoop, handler, script, err, channel, other>>

\* await client.logout() is answered: the connection is closed gracefully
CompleteLogout ==
    /\ running # NoCmd
    /\ running.kind = "logout"
    /\ EndConnection

\* ------------------------------------------------------------ fetch iterator

\* the running fetch hands the next message to the for-await loop, which must
\* be asking for it
FetchYield ==
    /\ running.kind = "fetch"
    /\ running.left > 0
    /\ pc[running.task] = "fetchNext"
    /\ running' = [running EXCEPT !.left = running.left - 1]
    /\ pc' = [pc EXCEPT ![running.task] = "fetchBody"]
    /\ UNCHANGED <<connState, mailbox, selectedBy, held, lockQueue, cmdQueue,
                   inLoop, todo, handler, script, err, channel, other>>

\* number of collected messages after the loop body pushed one more
Collected(n) == IF n = NotFetched THEN 1
                ELSE IF n < MaxMsgs THEN n + 1 ELSE n

\* the loop body finishes without issuing a command (it may collect the
\* message for later) and asks for the next message; the loop ends there if
\* its fetch went away with the connection
LoopBody(t, collect) ==
    /\ pc[t] = "fetchBody"
    /\ pc' = [pc EXCEPT ![t] = IF running.kind = "fetch" /\ running.task = t
                                THEN "fetchNext" ELSE "ready"]
    /\ inLoop' = [inLoop EXCEPT ![t] = running.kind = "fetch" /\ running.task = t]
    /\ todo' = IF Scripted /\ collect THEN Collected(todo) ELSE todo
    /\ UNCHANGED <<connState, mailbox, selectedBy, held, lockQueue, running,
                   cmdQueue, handler, script, err, channel, other>>

\* the running fetch has delivered everything: the iteration completes
FetchDone ==
    /\ running.kind = "fetch"
    /\ running.left = 0
    /\ pc[running.task] = "fetchNext"
    /\ running' = NoCmd
    /\ pc' = [pc EXCEPT ![running.task] = "ready"]
    /\ inLoop' = [inLoop EXCEPT ![running.task] = FALSE]
    /\ todo' = IF Scripted /\ todo = NotFetched THEN 0 ELSE todo
    /\ UNCHANGED <<connState, mailbox, selectedBy, held, lockQueue, cmdQueue,
                   handler, script, err, channel, other>>

\* ------------------------------------------------------------ IDLE

\* faulty variant of AutoIdleOn: disableAutoIdle is ignored
AutoIdleAlways == TRUE

\* IDLE is entered automatically unless disableAutoIdle: true
AutoIdleOn == ~options.disableAutoIdle

\* faulty variant of AutoIdle: IDLE is entered while a command executes
AutoIdleWhileBusy ==
    /\ AutoIdleOn
    /\ connState = "Selected"
    /\ cmdQueue = <<>>
    /\ connState' = "Idling"
    /\ UNCHANGED <<mailbox, selectedBy, held, lockQueue, running, cmdQueue,
                   pc, inLoop, todo, handler, script, err, channel, other>>

\* Selected --> Idling after inactivity
AutoIdle ==
    /\ AutoIdleOn
    /\ connState = "Selected"
    /\ running = NoCmd
    /\ cmdQueue = <<>>
    /\ connState' = "Idling"
    /\ UNCHANGED <<mailbox, selectedBy, held, lockQueue, running, cmdQueue,
                   pc, inLoop, todo, handler, script, err, channel, other>>

\* await client.idle(): enters IDLE manually
Idle(t) ==
    /\ pc[t] = "ready"
    /\ connState = "Selected"
    /\ running = NoCmd
    /\ cmdQueue = <<>>
    /\ connState' = "Idling"
    /\ pc' = [pc EXCEPT ![t] = "waitIdle"]
    /\ UNCHANGED <<mailbox, selectedBy, held, lockQueue, running, cmdQueue,
                   inLoop, todo, handler, script, err, channel, other>>

\* ------------------------------------------------------------ 'exists' handler

\* client.on('exists', async (data) => {...}) registered while holding the
\* lock, as in watchAndFetch; it is never removed
RegisterHandler ==
    /\ pc[Watcher] = "ready"
    /\ held[Watcher] # NoMailbox
    /\ ~handler
    /\ Watching
    /\ handler' = TRUE
    /\ UNCHANGED <<connState, mailbox, selectedBy, held, lockQueue, running,
                   cmdQueue, pc, inLoop, todo, script, err, channel, other>>

\* faulty variant of CanEmit: mailbox events arrive whenever the client is
\* logged in
CanEmitLoggedIn == connState \in Usable

\* mailbox events are emitted only when a mailbox is selected
CanEmit == connState \in Open

\* event e is emitted to the listeners; data.path is the open mailbox (n
\* tells one emission from the next)
Emitted(e) == event' = [name |-> e, path |-> mailbox, n |-> 1 - event.n]

\* the server reports a change of the open mailbox: event e is emitted
Emit(e) ==
    /\ CanEmit
    /\ Emitted(e)
    /\ UNCHANGED <<connState, mailbox, selectedBy, held, lockQueue, running,
                   cmdQueue, pc, inLoop, todo, handler, script, err, channel,
                   routine, releases, setupOnly, store, cache, used>>

\* the server reports new messages in the open mailbox: the handler runs and
\* calls fetchAll(); the emitter does not await the handler
ExistsEvent ==
    /\ CanEmit
    /\ Emitted("exists")
    /\ handler
    /\ Len(cmdQueue) < MaxQueue
    /\ \A c \in InFlight : c.awaited
    /\ cmdQueue' = Append(cmdQueue,
            [task |-> Watcher, kind |-> "fetchAll", path |-> NoMailbox,
             awaited |-> FALSE, locked |-> held[Watcher] # NoMailbox,
             left |-> 0])
    /\ UNCHANGED <<connState, mailbox, selectedBy, held, lockQueue, running,
                   pc, inLoop, todo, handler, script, err, channel, routine,
                   releases, setupOnly, store, cache, used>>

\* ------------------------------------------------------------ try/finally
\* A routine is: let lock = await getMailboxLock(p); try { body } finally
\* { lock.release() }. routine[t].at is the call the task awaits: "acquire",
\* a call of the body ("search", "fetchAll", "flags", "move1", or "last" for the
\* last call of the body), or "finally" when the body has been left.

\* task t enters routine r on mailbox p and awaits the lock
Call(t, r, p) ==
    /\ routine[t].at = "out"
    /\ pc[t] = "ready"
    /\ held[t] = NoMailbox
    /\ connState \in Usable
    /\ lockQueue' = Append(lockQueue, [task |-> t, path |-> p])
    /\ pc' = [pc EXCEPT ![t] = "waitLock"]
    /\ routine' = [routine EXCEPT ![t] =
                        [name |-> r, at |-> "acquire", n |-> 0, rejected |-> FALSE]]
    /\ releases' = [releases EXCEPT ![t] = 0]
    /\ UNCHANGED <<connState, mailbox, selectedBy, held, running, cmdQueue,
                   inLoop, todo, handler, script, err, channel, setup>>

\* the client method called on reaching position at of routine r
CmdFor(r, at) ==
    CASE at = "search" -> "search"
      [] at = "fetchAll" -> "fetchAll"
      [] at = "flags" -> "messageFlagsAdd"
      [] at = "move1" -> "messageMove"
      [] r = "getMessages" -> "fetchAll"
      [] r = "markAsRead" -> "messageFlagsAdd"
      [] OTHER -> "messageMove"

\* where the body goes when the call awaited at position at returns; m is the
\* number of messages it reports, n the number still to be flagged
OkTo(r, at, n, m) ==
    CASE at = "acquire" /\ r = "fetchUnread" -> [at |-> "search", n |-> 0]
      [] at = "acquire" /\ r = "getMessages" ->
            [at |-> IF m = 0 THEN "finally" ELSE "last", n |-> 0]
      [] at = "acquire" /\ r = "markAsRead" -> [at |-> "last", n |-> 0]
      [] at = "acquire" /\ r = "moveToTrash" -> [at |-> "move1", n |-> 0]
      [] at = "search" -> IF m = 0 THEN [at |-> "finally", n |-> 0]
                                    ELSE [at |-> "fetchAll", n |-> m]
      [] at = "fetchAll" -> [at |-> "flags", n |-> n]
      [] at = "flags" /\ n > 1 -> [at |-> "flags", n |-> n - 1]
      [] OTHER -> [at |-> "finally", n |-> 0]

\* faulty variant of ThrowTo: the second messageMove of moveToTrash is outside
\* the guarded body
ThrowToUnguarded(r, at) ==
    IF r = "moveToTrash" THEN (IF at = "move1" THEN "last" ELSE "out")
    ELSE "finally"

\* where the body goes when the call awaited at position at throws: the catch
\* of moveToTrash tries the second messageMove, everything else leaves the body
ThrowTo(r, at) ==
    IF r = "moveToTrash" /\ at = "move1" THEN "last" ELSE "finally"

\* the call task t awaited in its routine has returned or thrown, and the body
\* runs on to its next call or leaves; a getMailboxLock() that failed leaves
\* the routine before the try
Advance(t) ==
    /\ pc[t] = "ready"
    /\ routine[t].at \notin {"out", "finally"}
    /\ LET r == routine[t] IN
       IF r.at = "acquire" /\ held[t] = NoMailbox
       THEN /\ routine' = [routine EXCEPT ![t] = NoRoutine]
            /\ UNCHANGED <<cmdQueue, pc, err>>
       ELSE \E ok \in BOOLEAN, m \in 0..MaxMsgs :
            /\ ok => ~r.rejected
            /\ ~ok => r.at # "acquire"
            /\ LET to == IF ok THEN OkTo(r.name, r.at, r.n, m)
                          ELSE [at |-> ThrowTo(r.name, r.at), n |-> 0]
               IN  IF to.at \in {"out", "finally"}
                   THEN /\ routine' = [routine EXCEPT ![t] =
                                [r EXCEPT !.at = to.at, !.n = 0, !.rejected = FALSE]]
                        /\ UNCHANGED <<cmdQueue, pc, err>>
                   ELSE IF connState \in Open /\ Len(cmdQueue) < MaxQueue
                   THEN /\ cmdQueue' = Append(cmdQueue,
                                [task |-> t, kind |-> CmdFor(r.name, to.at),
                                 path |-> NoMailbox, awaited |-> TRUE,
                                 locked |-> TRUE, left |-> 0])
                        /\ pc' = [pc EXCEPT ![t] = "waitCmd"]
                        /\ routine' = [routine EXCEPT ![t] =
                                [r EXCEPT !.at = to.at, !.n = to.n, !.rejected = FALSE]]
                        /\ UNCHANGED err
                   ELSE /\ connState \notin Open
                        /\ routine' = [routine EXCEPT ![t] =
                                [r EXCEPT !.at = to.at, !.n = to.n, !.rejected = TRUE]]
                        /\ err' = IF connState = "Disconnected"
                                  THEN "NoConnection" ELSE err
                        /\ UNCHANGED <<cmdQueue, pc>>
    /\ UNCHANGED <<connState, mailbox, selectedBy, held, lockQueue, running,
                   inLoop, todo, handler, script, channel, releases, setup>>

\* finally { lock.release() }
Finally(t) ==
    /\ pc[t] = "ready"
    /\ routine[t].at = "finally"
    /\ Unlock(t)
    /\ releases' = [releases EXCEPT ![t] = releases[t] + 1]
    /\ routine' = [routine EXCEPT ![t] = NoRoutine]
    /\ UNCHANGED setup

Next ==
    \/ \E t \in Tasks : Connect(t)
    \/ AuthSuccess
    \/ AuthFailure
    \/ \E t \in Tasks : Close(t)
    \/ Drop
    \/ \E t \in Tasks, k \in CmdKinds \cup {"getMailboxLock"} : CallDisconnected(t, k)
    \/ \E t \in Tasks, p \in Paths : GetMailboxLock(t, p)
    \/ GrantLock
    \/ \E t \in Tasks : Release(t)
    \/ \E t \in Tasks, k \in CmdKinds, p \in Paths \cup {NoMailbox} : IssueCmd(t, k, p)
    \/ StartCmd
    \/ Complete
    \/ CompleteLogout
    \/ FetchYield
    \/ \E t \in Tasks, collect \in BOOLEAN : LoopBody(t, collect)
    \/ FetchDone
    \/ AutoIdle
    \/ \E t \in Tasks : Idle(t)
    \/ RegisterHandler
    \/ ExistsEvent

Spec == Init /\ [][Next]_vars

\* the collect-then-process programs against a server that answers every
\* command: no close(), no dropped connection, no logout
NextCollect ==
    \/ \E t \in Tasks : Connect(t)
    \/ AuthSuccess
    \/ \E t \in Tasks, p \in Paths : GetMailboxLock(t, p)
    \/ GrantLock
    \/ \E t \in Tasks : Release(t)
    \/ \E t \in Tasks, k \in MailboxCmds : IssueCmd(t, k, NoMailbox)
    \/ StartCmd
    \/ Complete
    \/ FetchYield
    \/ \E t \in Tasks, collect \in BOOLEAN : LoopBody(t, collect)
    \/ FetchDone
    \/ AutoIdle

\* the server answers and the event loop runs every continuation that is ready
FairCollect ==
    /\ WF_vars(AuthSuccess)
    /\ WF_vars(GrantLock)
    /\ WF_vars(StartCmd)
    /\ WF_vars(Complete)
    /\ WF_vars(FetchYield)
    /\ WF_vars(FetchDone)
    /\ \A t \in Tasks :
        /\ WF_vars(\E collect \in BOOLEAN : LoopBody(t, collect))
        /\ WF_vars(\E k \in MailboxCmds : held[t] # NoMailbox /\ IssueCmd(t, k, NoMailbox))
        /\ WF_vars(Release(t))

\* the initial state of a program whose tasks follow the pattern
InitCollect ==
    /\ routine = [t \in Tasks |-> NoRoutine]
    /\ releases = [t \in Tasks |-> 0]
    /\ err = "none"
    /\ channel = "none"
    /\ options = DefaultOptions
    /\ starttls = TRUE
    /\ count = 0
    /\ job = NoJob
    /\ result = [k \in FetchKinds |-> NoResult]
    /\ connected = FALSE
    /\ listener = FALSE
    /\ event = NoEvent
    /\ store = EmptyStore
    /\ cache = NoCache
    /\ used = NoUse
    /\ batch = NoBatch
    /\ tree = NoTree
    /\ outcome = NoOutcome
    /\ gm = NoCall
    /\ connState = "Disconnected"
    /\ mailbox = NoMailbox
    /\ selectedBy = "none"
    /\ held = [t \in Tasks |-> NoMailbox]
    /\ lockQueue = <<>>
    /\ running = NoCmd
    /\ cmdQueue = <<>>
    /\ pc = [t \in Tasks |-> "ready"]
    /\ inLoop = [t \in Tasks |-> FALSE]
    /\ todo = NotFetched
    /\ handler = FALSE
    /\ script = "collect"

SpecCollect == InitCollect /\ [][NextCollect]_vars /\ FairCollect

\* the watcher program: watchAndFetch next to other users of the lock
InitWatch ==
    /\ routine = [t \in Tasks |-> NoRoutine]
    /\ releases = [t \in Tasks |-> 0]
    /\ err = "none"
    /\ channel = "none"
    /\ options = DefaultOptions
    /\ starttls = TRUE
    /\ count = 0
    /\ job = NoJob
    /\ result = [k \in FetchKinds |-> NoResult]
    /\ connected = FALSE
    /\ listener = FALSE
    /\ event = NoEvent
    /\ store = EmptyStore
    /\ cache = NoCache
    /\ used = NoUse
    /\ batch = NoBatch
    /\ tree = NoTree
    /\ outcome = NoOutcome
    /\ gm = NoCall
    /\ connState = "Disconnected"
    /\ mailbox = NoMailbox
    /\ selectedBy = "none"
    /\ held = [t \in Tasks |-> NoMailbox]
    /\ lockQueue = <<>>
    /\ running = NoCmd
    /\ cmdQueue = <<>>
    /\ pc = [t \in Tasks |-> "ready"]
    /\ inLoop = [t \in Tasks |-> FALSE]
    /\ todo = NotFetched
    /\ handler = FALSE
    /\ script = "watch"

NextWatch ==
    \/ \E t \in Tasks : Connect(t)
    \/ AuthSuccess
    \/ AuthFailure
    \/ \E t \in Tasks : Close(t)
    \/ Drop
    \/ \E t \in Tasks : CallDisconnected(t, "logout")
    \/ \E t \in Tasks, p \in Paths : GetMailboxLock(t, p)
    \/ GrantLock
    \/ \E t \in Tasks : Release(t)
    \/ \E t \in Tasks : IssueCmd(t, "logout", NoMailbox)
    \/ StartCmd
    \/ Complete
    \/ CompleteLogout
    \/ AutoIdle
    \/ \E t \in Tasks : Idle(t)
    \/ RegisterHandler
    \/ ExistsEvent

\* the client sends the oldest waiting command as soon as the connection is
\* free for it
SpecWatch == InitWatch /\ [][NextWatch]_vars /\ WF_vars(StartCmd)

\* the routines against a connection that can drop at any time
InitGuarded ==
    /\ routine = [t \in Tasks |-> NoRoutine]
    /\ releases = [t \in Tasks |-> 0]
    /\ err = "none"
    /\ channel = "none"
    /\ options = DefaultOptions
    /\ starttls = TRUE
    /\ count = 0
    /\ job = NoJob
    /\ result = [k \in FetchKinds |-> NoResult]
    /\ connected = FALSE
    /\ listener = FALSE
    /\ event = NoEvent
    /\ store = EmptyStore
    /\ cache = NoCache
    /\ used = NoUse
    /\ batch = NoBatch
    /\ tree = NoTree
    /\ outcome = NoOutcome
    /\ gm = NoCall
    /\ connState = "Disconnected"
    /\ mailbox = NoMailbox
    /\ selectedBy = "none"
    /\ held = [t \in Tasks |-> NoMailbox]
    /\ lockQueue = <<>>
    /\ running = NoCmd
    /\ cmdQueue = <<>>
    /\ pc = [t \in Tasks |-> "ready"]
    /\ inLoop = [t \in Tasks |-> FALSE]
    /\ todo = NotFetched
    /\ handler = FALSE
    /\ script = "guarded"

NextGuarded ==
    \/ \E t \in Tasks : routine[t].at = "out" /\ Connect(t)
    \/ AuthSuccess
    \/ Drop
    \/ \E t \in Tasks, r \in Routines, p \in Paths : Call(t, r, p)
    \/ GrantLock
    \/ \E t \in Tasks : Advance(t)
    \/ \E t \in Tasks : Finally(t)
    \/ StartCmd
    \/ Complete
    \/ AutoIdle

SpecGuarded == InitGuarded /\ [][NextGuarded]_vars

\* ================================================================ claims

\* C1: mutual exclusion of the mailbox lock: at most one task holds a lock
\* handle at any time, and a pending getMailboxLock() call returns its handle
\* only when no handle is out, i.e. after the holder's release().
C1_MutualExclusion ==
    /\ [](Cardinality(Holders) <= 1)
    /\ [][\A t \in Tasks : held[t] = NoMailbox /\ held'[t] # NoMailbox
                              => Holders = {} /\ pc[t] = "waitLock"]_vars

\* a second caller waits while a first one holds the lock
C1_Witness ==
    \E h, w \in Tasks : h # w /\ held[h] # NoMailbox /\ pc[w] = "waitLock"

DirectSwitch ==
    running.kind \in {"mailboxOpen", "mailboxClose"} /\ running' = NoCmd

C3_OnlyReleaseFrees ==
    [][\A h \in Tasks : held[h] # NoMailbox =>
        \/ /\ held' = held
           /\ connState' # "Disconnected" =>
                \A i \in DOMAIN lockQueue : lockQueue'[i] = lockQueue[i]
                                             /\ pc'[lockQueue[i].task] = "waitLock"
        \/ pc[h] = "ready" /\ held'[h] = NoMailbox /\ lockQueue' = lockQueue]_vars

\* the holder sits in idle() without releasing while another task waits for
\* the lock
C3_Witness ==
    \E h \in Tasks :
        /\ held[h] # NoMailbox /\ pc[h] = "waitIdle" /\ connState = "Idling"
        /\ Waiters # {} /\ h \notin Waiters

\* task t awaits a second getMailboxLock() while holding the first lock
Stuck(t) == held[t] # NoMailbox /\ pc[t] = "waitLock"

\* C4: the lock is not re-entrant: once a holder awaits a second
\* getMailboxLock(), neither the acquisition nor its release happens for as
\* long as the connection lasts.
C4_NotReentrant ==
    [][\A t \in Tasks : Stuck(t) /\ connState' # "Disconnected"
            => Stuck(t)' /\ held'[t] = held[t]]_vars

\* a holder waits for a second lock
C4_Witness == \E t \in Tasks : Stuck(t)

\* C5: from the start of a fetch() iteration until it has completed no other
\* command is executed: the connection stays with the fetch, no queued command
\* leaves the queue and no other mailbox is selected.
C5_FetchExclusive ==
    [][running.kind = "fetch" =>
        /\ \/ running' = running
           \/ running' = [running EXCEPT !.left = running.left - 1]
           \/ running' = NoCmd /\ (running.left = 0 \/ connState' = "Disconnected")
        /\ Len(cmdQueue') >= Len(cmdQueue) \/ connState' = "Disconnected"
        /\ mailbox' \in {mailbox, NoMailbox}]_vars

\* a fetch is delivering messages while another command waits
C5_Witness ==
    running.kind = "fetch" /\ running.left > 0 /\ cmdQueue # <<>>

\* the fetch of task t occupies the connection
FetchActive(t) == running.kind = "fetch" /\ running.task = t

\* task t awaits, inside the body of its fetch loop, a command that waits
\* behind the fetch
Dead(t) == inLoop[t] /\ pc[t] = "waitCmd" /\ FetchActive(t)

\* the awaited commands of task t that wait behind the connection
Pending(t) == {i \in DOMAIN cmdQueue : cmdQueue[i].task = t /\ cmdQueue[i].awaited}

\* C6: a command awaited inside the loop of a running fetch never completes
\* and the iteration never finishes: as long as the connection lasts the
\* caller stays suspended in the loop body, the command stays queued and the
\* fetch stays unfinished.
C6_FetchLoopDeadlock ==
    [][\A t \in Tasks : Dead(t) /\ connState' # "Disconnected"
            => Dead(t)' /\ Pending(t)' = Pending(t) /\ Pending(t) # {}]_vars

\* the loop body awaits a command queued behind its own fetch
C6_Witness ==
    \E t \in Tasks : Dead(t) /\ Pending(t) # {} /\ running.left > 0

\* C7: collect-then-process is deadlock-free: every lock taken by a task that
\* fetches first and issues the flag updates afterwards is released, with all
\* collected messages processed.
C7_CollectThenProcessTerminates ==
    \A t \in Tasks : (held[t] # NoMailbox) ~> (held[t] = NoMailbox /\ todo = 0)

\* a flag update is executing for a message collected by a completed fetch
C7_Witness ==
    \E t \in Tasks :
        /\ held[t] # NoMailbox /\ running.task = t
        /\ running.kind = "messageFlagsAdd" /\ todo \in 0..MaxMsgs

\* C8 as stated: Selected or Idling only while a mailbox lock is held.
C8_SelectedOnlyUnderLock ==
    connState \in Open => Holders # {}

\* C8 amended: Selected or Idling only while a mailbox lock is held or after a
\* direct mailboxOpen().
C8_SelectedUnderLockOrDirect ==
    connState \in Open => Holders # {} \/ selectedBy = "open"

\* a mailbox is open after mailboxOpen() and no lock is held
C8_Witness ==
    connState \in Open /\ Holders = {} /\ selectedBy = "open"

\* C9: the lock under which a mailbox command was issued is held until the
\* command completes.
C9_LockHeldDuringCommand ==
    \A c \in InFlight : c.kind \in MailboxCmds /\ c.locked => held[c.task] # NoMailbox

\* causes of a change of connection state, read off the step
ByConnect == \E t \in Tasks : pc[t] = "ready" /\ pc'[t] = "waitConn"
ByLockGrant == \E t \in Tasks : held[t] = NoMailbox /\ held'[t] # NoMailbox
ByRelease == \E t \in Tasks : held[t] # NoMailbox /\ held'[t] = NoMailbox
ByAutoIdle == pc' = pc
ByIdleCall == \E t \in Tasks : pc[t] = "ready" /\ pc'[t] = "waitIdle"
ByCommand == running = NoCmd /\ running' # NoCmd
ByLogout == running.kind = "logout"
ByMailboxOpen == running.kind = "mailboxOpen" /\ running' = NoCmd
ByMailboxClose == running.kind = "mailboxClose" /\ running' = NoCmd

Goes(from, to) == connState = from /\ connState' = to

C11_NoAutoReconnect ==
    [][connState = "Disconnected" /\ connState' # "Disconnected"
        => connState' = "Connecting" /\ ByConnect]_vars

\* the connection ended while a lock was held and nobody has reconnected
C11_Witness ==
    connState = "Disconnected" /\ Holders # {} /\ \A t \in Tasks : pc[t] = "ready"

\* C12: whenever a command is executing, the connection is Authenticated or
\* Selected: never Disconnected, Connecting or Idling.
C12_CommandsOnlyWhenUsable ==
    running # NoCmd => connState \in {"Authenticated", "Selected"}

\* a command of another task executes while the lock holder is between calls
C12_Witness ==
    /\ running # NoCmd /\ connState = "Selected"
    /\ \E t \in Tasks : pc[t] = "ready" /\ held[t] # NoMailbox /\ running.task # t

\* the running command apart from the progress of its delivery
SameCmd(c, d) == [c EXCEPT !.left = 0] = [d EXCEPT !.left = 0]

\* C13: commands are serialized: a command starts only when no command is in
\* progress, it is the oldest command waiting, and it keeps the connection
\* until it completes or the connection ends.
C13_Serialized ==
    [][/\ running # NoCmd /\ running' # NoCmd => SameCmd(running, running')
       /\ running = NoCmd /\ running' # NoCmd =>
            /\ cmdQueue # <<>> /\ SameCmd(running', Head(cmdQueue))
            /\ cmdQueue' = Tail(cmdQueue)
       /\ running # NoCmd /\ connState' # "Disconnected" =>
            Len(cmdQueue') >= Len(cmdQueue)]_vars

\* a command waits while another task's command, not a fetch, is in progress
C13_Witness ==
    /\ running # NoCmd /\ running.kind # "fetch" /\ cmdQueue # <<>>
    /\ Head(cmdQueue).task # running.task
\* C14: in the try/finally routines release() is called exactly once for each
\* successful getMailboxLock(), on every exit path of the body (normal end,
\* thrown error, early return), and a task that has left its routine holds no
\* lock.
C14_ReleasedExactlyOnce ==
    /\ [](\A t \in Tasks : releases[t] <= 1
                           /\ (routine[t].at = "out" => held[t] = NoMailbox))
    /\ [][\A t \in Tasks : routine[t].at # "out" /\ routine'[t].at = "out" =>
            \/ routine[t].at = "finally" /\ held[t] # NoMailbox
                    /\ releases[t] = 0 /\ releases'[t] = 1
            \/ routine[t].at = "acquire" /\ held[t] = NoMailbox
                    /\ releases'[t] = 0]_vars

\* the second messageMove of moveToTrash has failed on a dropped connection
\* and the lock is about to be released
C14_Witness ==
    \E t \in Tasks :
        /\ routine[t].name = "moveToTrash" /\ routine[t].at = "finally"
        /\ held[t] # NoMailbox /\ connState = "Disconnected"
\* C15: while the client is Disconnected only connect() is available: no
\* command and no lock request is accepted, a call that fails with
\* NoConnection leaves the connection and the locks as they are, and nothing
\* but connect() and a holder's release() changes either.
C15_NoConnection ==
    /\ [][connState = "Disconnected" =>
            \/ connState' = "Connecting" /\ ByConnect
            \/ /\ connState' = "Disconnected" /\ mailbox' = mailbox
               /\ running' = NoCmd /\ cmdQueue' = <<>> /\ lockQueue' = <<>>
               /\ held' = held \/ ByRelease]_vars
    /\ [][err' = "NoConnection" /\ err # "NoConnection" =>
            /\ connState = "Disconnected"
            /\ UNCHANGED <<connState, mailbox, selectedBy, held, lockQueue,
                           running, cmdQueue>>]_vars

\* a call has failed with NoConnection while a lock handle is still out
C15_Witness ==
    err = "NoConnection" /\ Holders # {} /\ connState = "Disconnected"

\* C16: a failed authentication takes the connection from Connecting back to
\* Disconnected and ends connect() with authenticationFailed; Authenticated
\* is entered from outside the connected states only by a successful
\* authentication.
C16_AuthFailure ==
    /\ [](err = "authenticationFailed" => connState = "Disconnected")
    /\ [][err' = "authenticationFailed" /\ err # "authenticationFailed" =>
            /\ connState = "Connecting" /\ connState' = "Disconnected"
            /\ \E t \in Tasks : pc[t] = "waitConn" /\ pc'[t] = "ready"]_vars
    /\ [][connState' = "Authenticated" /\ connState \notin Usable =>
            connState = "Connecting" /\ err' = "none"]_vars

\* connect() has failed with authenticationFailed
C16_Witness ==
    /\ err = "authenticationFailed" /\ connState = "Disconnected"
    /\ \A t \in Tasks : pc[t] = "ready"
\* C17: any command breaks IDLE: a command that starts while the connection
\* is Idling takes it to Selected, and a command waiting while the connection
\* is Idling gets to execute unless the connection ends first.
C17_CommandBreaksIdle ==
    /\ [][connState = "Idling" /\ running' # NoCmd => connState' = "Selected"]_vars
    /\ (connState = "Idling" /\ cmdQueue # <<>>)
            ~> (running # NoCmd \/ connState = "Disconnected")

\* a command was issued while the connection idles
C17_Witness ==
    connState = "Idling" /\ cmdQueue # <<>> /\ running = NoCmd

\* ------------------------------------------------------------ STARTTLS
\* A client built with any valid option set, against a server with or without
\* STARTTLS: the handshake, the locks and the ends of the connection.
InitTLS ==
    /\ routine = [t \in Tasks |-> NoRoutine]
    /\ releases = [t \in Tasks |-> 0]
    /\ err = "none"
    /\ channel = "none"
    /\ options \in OptionSets
    /\ starttls \in BOOLEAN
    /\ count = 0
    /\ job = NoJob
    /\ result = [k \in FetchKinds |-> NoResult]
    /\ connected = FALSE
    /\ listener = FALSE
    /\ event = NoEvent
    /\ store = EmptyStore
    /\ cache = NoCache
    /\ used = NoUse
    /\ batch = NoBatch
    /\ tree = NoTree
    /\ outcome = NoOutcome
    /\ gm = NoCall
    /\ connState = "Disconnected"
    /\ mailbox = NoMailbox
    /\ selectedBy = "none"
    /\ held = [t \in Tasks |-> NoMailbox]
    /\ lockQueue = <<>>
    /\ running = NoCmd
    /\ cmdQueue = <<>>
    /\ pc = [t \in Tasks |-> "ready"]
    /\ inLoop = [t \in Tasks |-> FALSE]
    /\ todo = NotFetched
    /\ handler = FALSE
    /\ script = "any"

NextTLS ==
    \/ \E t \in Tasks : Connect(t)
    \/ Upgrade
    \/ UpgradeFailure
    \/ AuthSuccess
    \/ AuthFailure
    \/ \E t \in Tasks : Close(t)
    \/ Drop
    \/ \E t \in Tasks, p \in Paths : GetMailboxLock(t, p)
    \/ GrantLock
    \/ \E t \in Tasks : Release(t)

SpecTLS == InitTLS /\ [][NextTLS]_vars

\* C18: with doSTARTTLS true and secure false the client is logged in only
\* over a connection upgraded to TLS, and never when the server lacks
\* STARTTLS; with doSTARTTLS false and secure false the connection is never
\* upgraded.
C18_StartTLS ==
    /\ ~options.secure /\ options.doSTARTTLS = "true" =>
           /\ connState \in Usable => channel = "tls"
           /\ ~starttls => connState \notin Usable
    /\ ~options.secure /\ options.doSTARTTLS = "false" => channel # "tls"

\* the login of a client with doSTARTTLS true follows the upgrade
C18_Witness ==
    /\ ~options.secure /\ options.doSTARTTLS = "true"
    /\ connState = "Authenticated"
    /\ channel = "tls"

\* --------------------------------------------------- fetch() and fetchAll()
\* The messages themselves: a mailbox of count messages, numbered from 1, that
\* does not change; fetch() and fetchAll() calls over it, and flag updates.

\* the messages lo..hi of the mailbox that are in range r, in mailbox order
RECURSIVE Matching(_, _, _)
Matching(r, lo, hi) ==
    IF lo > hi THEN <<>>
    ELSE (IF lo \in r THEN <<lo>> ELSE <<>>) \o Matching(r, lo + 1, hi)

\* the oldest queued command is a fetch or a fetchAll and starts executing:
\* the server will send the messages of its range
BeginFetch ==
    /\ cmdQueue # <<>>
    /\ CanStart
    /\ connState \in Open
    /\ Head(cmdQueue).kind \in FetchKinds
    /\ \E r \in Ranges :
        /\ job' = [range |-> r, stream |-> Matching(r, 1, count), got |-> <<>>]
        /\ running' = [Head(cmdQueue) EXCEPT !.left = Len(Matching(r, 1, count))]
    /\ cmdQueue' = Tail(cmdQueue)
    /\ connState' = IF connState = "Idling" THEN "Selected" ELSE connState
    /\ UNCHANGED <<mailbox, selectedBy, held, lockQueue, pc, inLoop, todo,
                   handler, script, err, channel, routine, releases, options,
                   starttls, count, result, connected, listener, extra>>

\* the server sends the next message: fetch() hands it to the for-await loop,
\* which must be asking for it; fetchAll() puts it into its array
Deliver ==
    /\ running.kind \in FetchKinds
    /\ job.stream # <<>>
    /\ running.kind = "fetch" => pc[running.task] = "fetchNext"
    /\ job' = [job EXCEPT !.stream = Tail(job.stream),
                          !.got = Append(job.got, Head(job.stream))]
    /\ running' = [running EXCEPT !.left = running.left - 1]
    /\ pc' = IF running.kind = "fetch"
             THEN [pc EXCEPT ![running.task] = "fetchBody"] ELSE pc
    /\ UNCHANGED <<connState, mailbox, selectedBy, held, lockQueue, cmdQueue,
                   inLoop, todo, handler, script, err, channel, routine,
                   releases, options, starttls, count, result, connected, listener, extra>>

\* faulty variant of MayResolve: fetchAll() resolves with what it has so far
MayResolveEarly(k) == k = "fetchAll" \/ job.stream = <<>>

\* a fetch of kind k is over when every message has been fetched
MayResolve(k) == job.stream = <<>>

\* the iteration over fetch() completes, or the promise of fetchAll()
\* resolves to its array; the connection is free again
Resolve ==
    /\ running.kind \in FetchKinds
    /\ MayResolve(running.kind)
    /\ running.kind = "fetch" => pc[running.task] = "fetchNext"
    /\ result' = [result EXCEPT ![running.kind] =
                        [range |-> job.range, msgs |-> job.got]]
    /\ job' = NoJob
    /\ running' = NoCmd
    /\ pc' = [pc EXCEPT ![running.task] = "ready"]
    /\ inLoop' = [inLoop EXCEPT ![running.task] = FALSE]
    /\ UNCHANGED <<connState, mailbox, selectedBy, held, lockQueue, cmdQueue,
                   todo, handler, script, err, channel, routine, releases,
                   options, starttls, count, connected, listener, extra>>

\* a session with INBOX open, over which the tasks call fetch(), fetchAll()
\* and messageFlagsAdd()
InitFetch ==
    /\ routine = [t \in Tasks |-> NoRoutine]
    /\ releases = [t \in Tasks |-> 0]
    /\ err = "none"
    /\ channel = "tls"
    /\ options = DefaultOptions
    /\ starttls = TRUE
    /\ count \in 0..MaxMsgs
    /\ job = NoJob
    /\ result = [k \in FetchKinds |-> NoResult]
    /\ connected = FALSE
    /\ listener = FALSE
    /\ event = NoEvent
    /\ store = EmptyStore
    /\ cache = NoCache
    /\ used = NoUse
    /\ batch = NoBatch
    /\ tree = NoTree
    /\ outcome = NoOutcome
    /\ gm = NoCall
    /\ connState = "Selected"
    /\ mailbox = "INBOX"
    /\ selectedBy = "open"
    /\ held = [t \in Tasks |-> NoMailbox]
    /\ lockQueue = <<>>
    /\ running = NoCmd
    /\ cmdQueue = <<>>
    /\ pc = [t \in Tasks |-> "ready"]
    /\ inLoop = [t \in Tasks |-> FALSE]
    /\ todo = NotFetched
    /\ handler = FALSE
    /\ script = "any"

NextFetch ==
    \/ \E t \in Tasks, k \in FetchKinds \cup {"messageFlagsAdd"} :
            pc[t] = "ready" /\ IssueCmd(t, k, NoMailbox)
    \/ BeginFetch
    \/ Deliver
    \/ \E t \in Tasks : LoopBody(t, FALSE)
    \/ Resolve
    \/ cmdQueue # <<>> /\ Head(cmdQueue).kind \notin FetchKinds /\ StartCmd
    \/ running.kind \notin FetchKinds /\ Complete

SpecFetch == InitFetch /\ [][NextFetch]_vars

Disconnect(t) ==
    /\ connected
    /\ IssueCmd(t, "logout", NoMailbox)

InitClient ==
    /\ routine = [t \in Tasks |-> NoRoutine]
    /\ releases = [t \in Tasks |-> 0]
    /\ err = "none"
    /\ channel = "none"
    /\ options = DefaultOptions
    /\ starttls = TRUE
    /\ count = 0
    /\ job = NoJob
    /\ result = [k \in FetchKinds |-> NoResult]
    /\ connected = FALSE
    /\ listener = FALSE
    /\ event = NoEvent
    /\ store = EmptyStore
    /\ cache = NoCache
    /\ used = NoUse
    /\ batch = NoBatch
    /\ tree = NoTree
    /\ outcome = NoOutcome
    /\ gm = NoCall
    /\ connState = "Disconnected"
    /\ mailbox = NoMailbox
    /\ selectedBy = "none"
    /\ held = [t \in Tasks |-> NoMailbox]
    /\ lockQueue = <<>>
    /\ running = NoCmd
    /\ cmdQueue = <<>>
    /\ pc = [t \in Tasks |-> "ready"]
    /\ inLoop = [t \in Tasks |-> FALSE]
    /\ todo = NotFetched
    /\ handler = FALSE
    /\ script = "client"

NextClient ==
    \/ \E t \in Tasks : Connect(t)
    \/ AuthSuccess
    \/ AuthFailure
    \/ \E t \in Tasks : Disconnect(t)
    \/ StartCmd
    \/ CompleteLogout
    \/ \E t \in Tasks : Close(t)
    \/ Drop
    \/ \E t \in Tasks, p \in Paths : GetMailboxLock(t, p)
    \/ GrantLock
    \/ \E t \in Tasks : Release(t)
    \/ AutoIdle

SpecClient == InitClient /\ [][NextClient]_vars

\* C20: whenever the connection is closed, by logout(), by close() or by a
\* drop, the registered 'close' listener has run: this.connected is false
\* from that step on, so the flag is set only while the client is logged in.
C20_CloseEmitted ==
    /\ [](listener /\ connected => connState \in Usable)
    /\ [][connState # "Disconnected" /\ connState' = "Disconnected" /\ listener
            => ~connected']_vars

\* the connection has ended while the listener was registered and a lock
\* was held
C20_Witness ==
    /\ listener
    /\ ~connected
    /\ connState = "Disconnected"
    /\ Holders # {}
    /\ err = "none"

\* ------------------------------------------------------------ mailbox events
\* A session in which mailboxes are selected through locks and mailboxOpen()
\* while the server reports changes.
InitEvents ==
    /\ routine = [t \in Tasks |-> NoRoutine]
    /\ releases = [t \in Tasks |-> 0]
    /\ err = "none"
    /\ channel = "none"
    /\ options = DefaultOptions
    /\ starttls = TRUE
    /\ count = 0
    /\ job = NoJob
    /\ result = [k \in FetchKinds |-> NoResult]
    /\ connected = FALSE
    /\ listener = FALSE
    /\ event = NoEvent
    /\ store = EmptyStore
    /\ cache = NoCache
    /\ used = NoUse
    /\ batch = NoBatch
    /\ tree = NoTree
    /\ outcome = NoOutcome
    /\ gm = NoCall
    /\ connState = "Disconnected"
    /\ mailbox = NoMailbox
    /\ selectedBy = "none"
    /\ held = [t \in Tasks |-> NoMailbox]
    /\ lockQueue = <<>>
    /\ running = NoCmd
    /\ cmdQueue = <<>>
    /\ pc = [t \in Tasks |-> "ready"]
    /\ inLoop = [t \in Tasks |-> FALSE]
    /\ todo = NotFetched
    /\ handler = FALSE
    /\ script = "any"

NextEvents ==
    \/ \E t \in Tasks : Connect(t)
    \/ AuthSuccess
    \/ Drop
    \/ \E t \in Tasks, p \in Paths : GetMailboxLock(t, p)
    \/ GrantLock
    \/ \E t \in Tasks : Release(t)
    \/ \E t \in Tasks, p \in Paths : IssueCmd(t, "mailboxOpen", p)
    \/ \E t \in Tasks : IssueCmd(t, "mailboxClose", NoMailbox)
    \/ StartCmd
    \/ Complete
    \/ AutoIdle
    \/ \E e \in MailboxEvents : Emit(e)

SpecEvents == InitEvents /\ [][NextEvents]_vars

\* C21: 'exists', 'expunge' and 'flags' are emitted only while a mailbox is
\* selected (never in Disconnected, Connecting or Authenticated), and the
\* event's path is the mailbox open at that moment.
C21_MailboxEvents ==
    [][event' # event =>
            /\ connState \in {"Selected", "Idling"}
            /\ mailbox # NoMailbox
            /\ event'.name \in MailboxEvents
            /\ event'.path = mailbox
            /\ mailbox' = mailbox]_vars

\* a second event was emitted, for the mailbox that is open, while idling
C21_Witness ==
    /\ event.name = "expunge"
    /\ event.n = 0
    /\ event.path = "Sent"
    /\ mailbox = "Sent"
    /\ connState = "Idling"

\* ------------------------------------------------------------ identifiers
\* INBOX on the server and an application that caches UIDs. The server side
\* is the IMAP protocol's: a new message takes UIDNEXT, deleting a message
\* renumbers the sequence, and a new UIDVALIDITY period reassigns every UID.
\* UIDVALIDITY is told on selecting the mailbox and stays while it is selected.

\* the UIDs of the messages in the mailbox
Uids(msgs) == {msgs[i].uid : i \in DOMAIN msgs}

\* the sequence without its i-th element
Without(q, i) == [j \in 1..(Len(q) - 1) |-> IF j < i THEN q[j] ELSE q[j + 1]]

\* a message arrives: it takes the next UID and the last sequence number
Arrive ==
    /\ Len(store.msgs) < MaxMsgs
    /\ store.uidNext <= MaxUid
    /\ store.made < MaxUid
    /\ store' = [store EXCEPT
                    !.msgs = Append(@, [id |-> store.made + 1, uid |-> store.uidNext]),
                    !.uidNext = @ + 1,
                    !.made = @ + 1]
    /\ UNCHANGED <<connState, mailbox, selectedBy, held, lockQueue, running,
                   cmdQueue, pc, inLoop, todo, handler, script, err, channel,
                   routine, releases, setupOnly, event, cache, used>>

\* the message with sequence number i is deleted
Expunge(i) ==
    /\ i \in DOMAIN store.msgs
    /\ store' = [store EXCEPT !.msgs = Without(@, i)]
    /\ UNCHANGED <<connState, mailbox, selectedBy, held, lockQueue, running,
                   cmdQueue, pc, inLoop, todo, handler, script, err, channel,
                   routine, releases, setupOnly, event, cache, used>>

\* a new UIDVALIDITY period: every message gets a new UID
Revalidate ==
    /\ connState \notin Open
    /\ store.uidValidity < MaxValidity
    /\ store' = [store EXCEPT
                    !.msgs = [j \in DOMAIN @ |-> [@[j] EXCEPT !.uid = j]],
                    !.uidNext = Len(store.msgs) + 1,
                    !.uidValidity = @ + 1]
    /\ UNCHANGED <<connState, mailbox, selectedBy, held, lockQueue, running,
                   cmdQueue, pc, inLoop, todo, handler, script, err, channel,
                   routine, releases, setupOnly, event, cache, used>>

\* faulty variant of Checked: the new value is remembered, the UIDs are kept
CheckedKeepsUids(c, v) == [c EXCEPT !.validity = v]

\* if (currentValidity !== cachedValidity): clear cached UIDs
Checked(c, v) ==
    IF v # c.validity THEN [validity |-> v, uids |-> {}, under |-> 0] ELSE c

\* the lock holder compares client.mailbox.uidValidity with the cached value
Check(t) ==
    /\ pc[t] = "ready"
    /\ held[t] # NoMailbox
    /\ connState \in Open
    /\ cache' = Checked(cache, store.uidValidity)
    /\ UNCHANGED <<connState, mailbox, selectedBy, held, lockQueue, running,
                   cmdQueue, pc, inLoop, todo, handler, script, err, channel,
                   routine, releases, setupOnly, event, store, used>>

\* after the check the lock holder fetches the UIDs again
Refetch(t) ==
    /\ pc[t] = "ready"
    /\ held[t] # NoMailbox
    /\ connState \in Open
    /\ cache.validity = store.uidValidity
    /\ cache' = [cache EXCEPT !.uids = Uids(store.msgs),
                              !.under = store.uidValidity]
    /\ UNCHANGED <<connState, mailbox, selectedBy, held, lockQueue, running,
                   cmdQueue, pc, inLoop, todo, handler, script, err, channel,
                   routine, releases, setupOnly, event, store, used>>

\* the lock holder, the check having found the cached value current, uses a
\* cached UID
UseUid(t) ==
    /\ pc[t] = "ready"
    /\ held[t] # NoMailbox
    /\ connState \in Open
    /\ cache.validity = store.uidValidity
    /\ \E u \in cache.uids :
            used' = [uid |-> u, under |-> cache.under, at |-> store.uidValidity]
    /\ UNCHANGED <<connState, mailbox, selectedBy, held, lockQueue, running,
                   cmdQueue, pc, inLoop, todo, handler, script, err, channel,
                   routine, releases, setupOnly, event, store, cache>>

InitUids ==
    /\ routine = [t \in Tasks |-> NoRoutine]
    /\ releases = [t \in Tasks |-> 0]
    /\ err = "none"
    /\ channel = "tls"
    /\ options = DefaultOptions
    /\ starttls = TRUE
    /\ count = 0
    /\ job = NoJob
    /\ result = [k \in FetchKinds |-> NoResult]
    /\ connected = FALSE
    /\ listener = FALSE
    /\ event = NoEvent
    /\ store = EmptyStore
    /\ cache = NoCache
    /\ used = NoUse
    /\ batch = NoBatch
    /\ tree = NoTree
    /\ outcome = NoOutcome
    /\ gm = NoCall
    /\ connState = "Authenticated"
    /\ mailbox = NoMailbox
    /\ selectedBy = "none"
    /\ held = [t \in Tasks |-> NoMailbox]
    /\ lockQueue = <<>>
    /\ running = NoCmd
    /\ cmdQueue = <<>>
    /\ pc = [t \in Tasks |-> "ready"]
    /\ inLoop = [t \in Tasks |-> FALSE]
    /\ todo = NotFetched
    /\ handler = FALSE
    /\ script = "any"

\* the application is one task
NextUids ==
    \/ GetMailboxLock(Watcher, "INBOX")
    \/ GrantLock
    \/ Release(Watcher)
    \/ Arrive
    \/ \E i \in 1..MaxMsgs : Expunge(i)
    \/ Revalidate
    \/ Check(Watcher)
    \/ Refetch(Watcher)
    \/ UseUid(Watcher)

SpecUids == InitUids /\ [][NextUids]_vars

\* the sequence number of the message named id, 0 if it is not in the mailbox
SeqOf(msgs, id) ==
    IF \E i \in DOMAIN msgs : msgs[i].id = id
    THEN CHOOSE i \in DOMAIN msgs : msgs[i].id = id
    ELSE 0

\* the UID of the message named id
UidOf(msgs, id) == msgs[SeqOf(msgs, id)].uid

\* the message named id is in the mailbox before and after the step
Stays(id) == SeqOf(store.msgs, id) # 0 /\ SeqOf(store'.msgs, id) # 0

\* C22: within one UIDVALIDITY period a message keeps its UID whatever
\* arrives or is deleted, and no two messages share a UID; deleting a message
\* lowers the sequence number of every later message by one; the application
\* drops its cached UIDs when the check finds another uidValidity, and every
\* cached UID it uses was cached under the mailbox's current UIDVALIDITY.
C22_Identifiers ==
    /\ [](\A i, j \in DOMAIN store.msgs :
            store.msgs[i].uid = store.msgs[j].uid => i = j)
    /\ [][\A id \in 1..MaxUid :
            Stays(id) =>
                /\ store'.uidValidity = store.uidValidity
                        => UidOf(store'.msgs, id) = UidOf(store.msgs, id)
                /\ SeqOf(store'.msgs, id) =
                        SeqOf(store.msgs, id) -
                        Cardinality({i \in 1..(SeqOf(store.msgs, id) - 1) :
                            SeqOf(store'.msgs, store.msgs[i].id) = 0})]_vars
    /\ [][cache'.validity # cache.validity => cache'.uids = {}]_vars
    /\ [](used # NoUse => used.under = used.at)

\* a cached UID is used in the second period, after a deletion changed the
\* sequence number of the message it names
C22_Witness ==
    /\ used.at = 2
    /\ Len(store.msgs) = 1
    /\ store.msgs[1].id = 2
    /\ store.msgs[1].uid = used.uid

\* ------------------------------------------------------------ lock liveness
\* Tasks that each lock a mailbox, work on it and release, over and over, as
\* in "Process All Mailboxes"; the connection may drop and be set up again.
InitLocks ==
    /\ routine = [t \in Tasks |-> NoRoutine]
    /\ releases = [t \in Tasks |-> 0]
    /\ err = "none"
    /\ channel = "none"
    /\ options = DefaultOptions
    /\ starttls = TRUE
    /\ count = 0
    /\ job = NoJob
    /\ result = [k \in FetchKinds |-> NoResult]
    /\ connected = FALSE
    /\ listener = FALSE
    /\ event = NoEvent
    /\ store = EmptyStore
    /\ cache = NoCache
    /\ used = NoUse
    /\ batch = NoBatch
    /\ tree = NoTree
    /\ outcome = NoOutcome
    /\ gm = NoCall
    /\ connState = "Disconnected"
    /\ mailbox = NoMailbox
    /\ selectedBy = "none"
    /\ held = [t \in Tasks |-> NoMailbox]
    /\ lockQueue = <<>>
    /\ running = NoCmd
    /\ cmdQueue = <<>>
    /\ pc = [t \in Tasks |-> "ready"]
    /\ inLoop = [t \in Tasks |-> FALSE]
    /\ todo = NotFetched
    /\ handler = FALSE
    /\ script = "any"

NextLocks ==
    \/ \E t \in Tasks : Connect(t)
    \/ AuthSuccess
    \/ Drop
    \/ \E t \in Tasks, p \in Paths :
            held[t] = NoMailbox /\ GetMailboxLock(t, p)
    \/ GrantLock
    \/ \E t \in Tasks :
            held[t] # NoMailbox /\ IssueCmd(t, "fetchAll", NoMailbox)
    \/ StartCmd
    \/ Complete
    \/ \E t \in Tasks : Release(t)
    \/ AutoIdle

\* every holder ends its work and gets to its finally block (however often it
\* could go on working instead), the server answers, and the client sends its
\* oldest waiting command and hands a free lock to the oldest pending call
FairLocks ==
    /\ WF_vars(GrantLock)
    /\ WF_vars(StartCmd)
    /\ WF_vars(Complete)
    /\ \A t \in Tasks : SF_vars(Release(t))

SpecLocks == InitLocks /\ [][NextLocks]_vars /\ FairLocks

Awaits(k) ==
    /\ connState \in Open
    /\ Len(cmdQueue) < MaxQueue
    /\ cmdQueue' = Append(cmdQueue,
            [task |-> Watcher, kind |-> k, path |-> NoMailbox, awaited |-> TRUE,
             locked |-> held[Watcher] # NoMailbox, left |-> 0])
    /\ pc' = [pc EXCEPT ![Watcher] = "waitCmd"]

\* let total = client.mailbox.exists; start = 1
BatchStart ==
    /\ batch.at = "out"
    /\ pc[Watcher] = "ready"
    /\ held[Watcher] # NoMailbox
    /\ batch' = [batch EXCEPT !.at = "test", !.total = count, !.start = 1]
    /\ UNCHANGED <<connState, mailbox, selectedBy, held, lockQueue, running,
                   cmdQueue, pc, inLoop, todo, handler, script, err, channel,
                   settled>>

\* faulty variant of BatchEnd: the last batch is not cut at total
BatchEndUncut(start, batchSize, total) == start + batchSize - 1

\* Math.min(start + batchSize - 1, total)
BatchEnd(start, batchSize, total) ==
    IF start + batchSize - 1 < total THEN start + batchSize - 1 ELSE total

\* start <= total: the next range is fetched with fetchAll; otherwise the
\* loop is left
BatchTest ==
    /\ batch.at = "test"
    /\ IF batch.start <= batch.total
       THEN /\ Awaits("fetchAll")
            /\ batch' = [batch EXCEPT
                    !.at = "fetchAll",
                    !.ranges = Append(@, <<batch.start,
                        BatchEnd(batch.start, batch.batchSize, batch.total)>>)]
       ELSE /\ batch' = [batch EXCEPT !.at = "finally"]
            /\ UNCHANGED <<cmdQueue, pc>>
    /\ UNCHANGED <<connState, mailbox, selectedBy, held, lockQueue, running,
                   inLoop, todo, handler, script, err, channel, settled>>

\* fetchAll has returned: the unseen messages, if any, are marked with one
\* messageFlagsAdd; otherwise start += batchSize
BatchFetched ==
    /\ batch.at = "fetchAll"
    /\ pc[Watcher] = "ready"
    /\ \E unseen \in BOOLEAN :
        IF unseen
        THEN /\ Awaits("messageFlagsAdd")
             /\ batch' = [batch EXCEPT !.at = "flags"]
        ELSE /\ batch' = [batch EXCEPT !.at = "test",
                                       !.start = @ + batch.batchSize]
             /\ UNCHANGED <<cmdQueue, pc>>
    /\ UNCHANGED <<connState, mailbox, selectedBy, held, lockQueue, running,
                   inLoop, todo, handler, script, err, channel, settled>>

\* messageFlagsAdd has returned: start += batchSize
BatchFlagged ==
    /\ batch.at = "flags"
    /\ pc[Watcher] = "ready"
    /\ batch' = [batch EXCEPT !.at = "test", !.start = @ + batch.batchSize]
    /\ UNCHANGED <<connState, mailbox, selectedBy, held, lockQueue, running,
                   cmdQueue, pc, inLoop, todo, handler, script, err, channel,
                   settled>>

\* finally { lock.release() }
BatchFinally ==
    /\ batch.at = "finally"
    /\ pc[Watcher] = "ready"
    /\ Unlock(Watcher)
    /\ batch' = [batch EXCEPT !.at = "end"]
    /\ UNCHANGED settled

InitBatch ==
    /\ routine = [t \in Tasks |-> NoRoutine]
    /\ releases = [t \in Tasks |-> 0]
    /\ err = "none"
    /\ channel = "none"
    /\ options = DefaultOptions
    /\ starttls = TRUE
    /\ count \in 0..MaxTotal
    /\ job = NoJob
    /\ result = [k \in FetchKinds |-> NoResult]
    /\ connected = FALSE
    /\ listener = FALSE
    /\ event = NoEvent
    /\ store = EmptyStore
    /\ cache = NoCache
    /\ used = NoUse
    /\ batch \in {[NoBatch EXCEPT !.batchSize = b] : b \in 1..MaxBatch}
    /\ tree = NoTree
    /\ outcome = NoOutcome
    /\ gm = NoCall
    /\ connState = "Disconnected"
    /\ mailbox = NoMailbox
    /\ selectedBy = "none"
    /\ held = [t \in Tasks |-> NoMailbox]
    /\ lockQueue = <<>>
    /\ running = NoCmd
    /\ cmdQueue = <<>>
    /\ pc = [t \in Tasks |-> "ready"]
    /\ inLoop = [t \in Tasks |-> FALSE]
    /\ todo = NotFetched
    /\ handler = FALSE
    /\ script = "any"

NextBatch ==
    \/ batch.at = "out" /\ Connect(Watcher)
    \/ AuthSuccess
    \/ batch.at = "out" /\ held[Watcher] = NoMailbox
            /\ GetMailboxLock(Watcher, "INBOX")
    \/ GrantLock
    \/ BatchStart
    \/ BatchTest
    \/ StartCmd
    \/ Complete
    \/ BatchFetched
    \/ BatchFlagged
    \/ BatchFinally
    \/ batch.at = "end" /\ IssueCmd(Watcher, "logout", NoMailbox)
    \/ CompleteLogout

SpecBatch == InitBatch /\ [][NextBatch]_vars

\* the sequence numbers of the ranges rs
Covered(rs) == UNION {rs[i][1]..rs[i][2] : i \in DOMAIN rs}

\* C24: the ranges are start:end with start = 1, 1+batchSize, ... and
\* end = min(start+batchSize-1, total); they are non-empty, disjoint and
\* ascending, each holds at most batchSize numbers, and when the loop is left
\* they cover exactly 1..total in ceil(total/batchSize) iterations; the flag
\* update of a batch is issued only when its fetchAll has returned.
C24_Batches ==
    /\ [](LET rs == batch.ranges
              n == batch.batchSize
          IN  /\ \A i \in DOMAIN rs :
                    /\ rs[i][1] = 1 + (i - 1) * n
                    /\ rs[i][2] \in {rs[i][1] + n - 1, batch.total}
                    /\ rs[i][1] <= rs[i][2]
                    /\ rs[i][2] <= batch.total
                    /\ rs[i][2] - rs[i][1] + 1 <= n
              /\ \A i, j \in DOMAIN rs : i < j => rs[i][2] < rs[j][1]
              /\ batch.at \in {"finally", "end"} =>
                    /\ Covered(rs) = 1..batch.total
                    /\ Len(rs) = (batch.total + n - 1) \div n)
    /\ [][\A i \in DOMAIN cmdQueue' :
            cmdQueue'[i].kind = "messageFlagsAdd" /\ cmdQueue'[i] \notin InFlight
            => /\ batch.at = "fetchAll"
               /\ pc[Watcher] = "ready"
               /\ \A c \in InFlight : c.kind # "fetchAll"]_vars

\* the function has ended after a last batch shorter than the others
C24_Witness ==
    /\ batch.at = "end"
    /\ batch.total = MaxTotal
    /\ batch.batchSize = MaxBatch
    /\ Len(batch.ranges) = (MaxTotal + MaxBatch - 1) \div MaxBatch
    /\ connState = "Disconnected"

\* ------------------------------------------------------------ bodyStructure
\* findPartByType and the two copies of findAttachments on every
\* bodyStructure of up to MaxNodes nodes. A part identifier such as '1.2' is
\* the sequence of its numbers, <<1, 2>>: '1' is <<1>>, path.join('.') of an
\* array is the array, and `${path}.${i + 1}` appends i + 1.

\* node.childNodes.length of the node at position p (0 without childNodes)
Kids(t, p) ==
    Cardinality({q \in DOMAIN t :
        Len(q) = Len(p) + 1 /\ SubSeq(q, 1, Len(p)) = p})

\* findPartByType(node, type, subtype, path = '1'), node at position p
RECURSIVE FindPartByType(_, _, _, _, _)
RECURSIVE FindPartInKids(_, _, _, _, _, _)
FindPartByType(t, p, type, subtype, path) ==
    IF t[p].type = type /\ t[p].subtype = subtype
    THEN path
    ELSE FindPartInKids(t, p, type, subtype, path, 1)

\* its for loop, from child i on
FindPartInKids(t, p, type, subtype, path, i) ==
    IF i > Kids(t, p) THEN Null
    ELSE LET childPath == IF path = <<1>> THEN <<i>> ELSE Append(path, i)
             found == FindPartByType(t, Append(p, i), type, subtype, childPath)
         IN  IF found # Null THEN found
             ELSE FindPartInKids(t, p, type, subtype, path, i + 1)

\* the condition of findAttachments, guide copy
IsAttachmentGuide(n) ==
    \/ n.disposition = "attachment"
    \/ /\ n.type # "none"
       /\ n.type # "text"
       /\ n.type # "multipart"
       /\ n.disposition = "none"

\* findAttachments(node, path = []) of the guide: the part of each entry
RECURSIVE FindAttachmentsGuide(_, _, _)
RECURSIVE KidsAttachmentsGuide(_, _, _, _)
FindAttachmentsGuide(t, p, path) ==
    (IF IsAttachmentGuide(t[p])
     THEN << IF Len(path) # 0 THEN path ELSE <<1>> >>
     ELSE <<>>)
    \o KidsAttachmentsGuide(t, p, path, 1)

\* its forEach, from child i on
KidsAttachmentsGuide(t, p, path, i) ==
    IF i > Kids(t, p) THEN <<>>
    ELSE FindAttachmentsGuide(t, Append(p, i), Append(path, i))
         \o KidsAttachmentsGuide(t, p, path, i + 1)

\* faulty variant of IsAttachmentExample: the disposition is not looked at in
\* the second condition
IsAttachmentAnyDisposition(n) ==
    \/ n.disposition = "attachment"
    \/ /\ n.type # "none"
       /\ n.type # "text"
       /\ n.type # "multipart"

\* the condition of findAttachments, examples copy
IsAttachmentExample(n) ==
    \/ n.disposition = "attachment"
    \/ /\ n.type # "none"
       /\ n.type # "text"
       /\ n.type # "multipart"
       /\ n.disposition = "none"

\* findAttachments(node, path = []) of the examples: the part of each entry
RECURSIVE FindAttachmentsExample(_, _, _)
RECURSIVE KidsAttachmentsExample(_, _, _, _)
FindAttachmentsExample(t, p, path) ==
    (IF IsAttachmentExample(t[p])
     THEN << IF Len(path) # 0 THEN path ELSE <<1>> >>
     ELSE <<>>)
    \o KidsAttachmentsExample(t, p, path, 1)

\* its forEach, from child i on
KidsAttachmentsExample(t, p, path, i) ==
    IF i > Kids(t, p) THEN <<>>
    ELSE FindAttachmentsExample(t, Append(p, i), Append(path, i))
         \o KidsAttachmentsExample(t, p, path, i + 1)

\* the positions a node can be appended at so that the nodes are created in
\* pre-order: below the root's last child's last child and so on
Rightmost(t) ==
    {p \in DOMAIN t :
        \A i \in 1..Len(p) : p[i] = Kids(t, SubSeq(p, 1, i - 1))}

\* the server's bodyStructure has one more node, the last child of the
\* multipart node at p
Grow(p, k) ==
    /\ outcome = NoOutcome
    /\ tree[p].type = "multipart"
    /\ Cardinality(DOMAIN tree) < MaxNodes
    /\ p \in Rightmost(tree)
    /\ LET q == Append(p, Kids(tree, p) + 1) IN
        tree' = [x \in DOMAIN tree \cup {q} |-> IF x = q THEN k ELSE tree[x]]
    /\ UNCHANGED <<clientVars, fixed, batch, gm, outcome>>

\* findPartByType(message.bodyStructure, type, subtype)
CallFindPart(type, subtype) ==
    /\ outcome = NoOutcome
    /\ outcome' = [fn |-> "findPartByType", type |-> type, subtype |-> subtype,
                   value |-> FindPartByType(tree, <<>>, type, subtype, <<1>>)]
    /\ UNCHANGED <<clientVars, fixed, batch, gm, tree>>

\* findAttachments(message.bodyStructure), both copies
CallFindAttachments ==
    /\ outcome = NoOutcome
    /\ outcome' = [fn |-> "findAttachments",
                   guide |-> FindAttachmentsGuide(tree, <<>>, <<>>),
                   example |-> FindAttachmentsExample(tree, <<>>, <<>>)]
    /\ UNCHANGED <<clientVars, fixed, batch, gm, tree>>

\* the types looked for: getMessageContent's text/plain and text/html, and
\* two more
Queries == {<<"text", "plain">>, <<"text", "html">>, <<"image", "png">>,
            <<"multipart", "mixed">>}

InitParts ==
    /\ routine = [t \in Tasks |-> NoRoutine]
    /\ releases = [t \in Tasks |-> 0]
    /\ err = "none"
    /\ channel = "none"
    /\ options = DefaultOptions
    /\ starttls = TRUE
    /\ count = 0
    /\ job = NoJob
    /\ result = [k \in FetchKinds |-> NoResult]
    /\ connected = FALSE
    /\ listener = FALSE
    /\ event = NoEvent
    /\ store = EmptyStore
    /\ cache = NoCache
    /\ used = NoUse
    /\ batch = NoBatch
    /\ tree \in [{<<>>} -> Kinds]
    /\ outcome = NoOutcome
    /\ gm = NoCall
    /\ connState = "Disconnected"
    /\ mailbox = NoMailbox
    /\ selectedBy = "none"
    /\ held = [t \in Tasks |-> NoMailbox]
    /\ lockQueue = <<>>
    /\ running = NoCmd
    /\ cmdQueue = <<>>
    /\ pc = [t \in Tasks |-> "ready"]
    /\ inLoop = [t \in Tasks |-> FALSE]
    /\ todo = NotFetched
    /\ handler = FALSE
    /\ script = "any"

NextParts ==
    \/ \E p \in DOMAIN tree, k \in Kinds : Grow(p, k)
    \/ \E q \in Queries : CallFindPart(q[1], q[2])
    \/ CallFindAttachments

SpecParts == InitParts /\ [][NextParts]_vars

\* position p comes before position q in pre-order
Before(p, q) ==
    \/ Len(p) < Len(q) /\ SubSeq(q, 1, Len(p)) = p
    \/ \E i \in 1..Len(p) :
        /\ i <= Len(q)
        /\ SubSeq(p, 1, i - 1) = SubSeq(q, 1, i - 1)
        /\ p[i] < q[i]

\* the part identifier of the node at position p: its child indices joined by
\* dots, '1' for the root
PartOf(p) == IF p = <<>> THEN <<1>> ELSE p

\* the positions whose node has the type and subtype
Matches(t, type, subtype) ==
    {p \in DOMAIN t : t[p].type = type /\ t[p].subtype = subtype}

\* C25: findPartByType returns the part identifier of the first node in
\* pre-order whose type and subtype match, as findAttachments numbers it,
\* and null when no node matches.
C25_FindPartByType ==
    outcome.fn = "findPartByType" =>
        LET ms == Matches(tree, outcome.type, outcome.subtype) IN
        IF ms = {} THEN outcome.value = Null
        ELSE \E p \in ms :
                /\ \A q \in ms \ {p} : Before(p, q)
                /\ outcome.value = PartOf(p)
\* a node the claim counts as an attachment
Attached(n) ==
    \/ n.disposition = "attachment"
    \/ n.type \notin {"none", "text", "multipart"} /\ n.disposition = "none"

\* C26: findAttachments returns one entry for each node that is an attachment
\* and for no other node, in pre-order, the part of an entry being the node's
\* child indices joined by dots, '1' for the root; the guide's copy and the
\* examples' copy return the same parts.
C26_FindAttachments ==
    outcome.fn = "findAttachments" =>
        LET as == {p \in DOMAIN tree : Attached(tree[p])}
            Rank(p) == Cardinality({q \in as : Before(q, p)}) + 1
        IN  /\ Len(outcome.guide) = Cardinality(as)
            /\ \A p \in as : outcome.guide[Rank(p)] = PartOf(p)
            /\ outcome.example = outcome.guide

\* an attachment nested in the first part is listed before one that is the
\* second part
C26_Witness ==
    /\ outcome.fn = "findAttachments"
    /\ outcome.example = << <<1, 1>>, <<2>> >>
    /\ tree[<<1, 1>>].disposition = "attachment"
    /\ tree[<<2>>].type = "image"
\* ------------------------------------------------ SimpleEmailClient.getMessages
\* The Watcher calls getMessages('INBOX', limit) on a mailbox of count
\* messages. gm.at is where it is: "out" up to the lock, "fetchAll" awaiting
\* that call, "finally", "end".

\* faulty variant of GmStart: no Math.max
GmStartUnbounded(total, limit) == total - limit + 1

\* Math.max(1, total - limit + 1)
GmStart(total, limit) ==
    IF total - limit + 1 > 1 THEN total - limit + 1 ELSE 1

\* let total = this.client.mailbox.exists; if (total === 0) return [];
\* otherwise fetchAll(`${start}:*`) is awaited
GmBody ==
    /\ gm.at = "out"
    /\ pc[Watcher] = "ready"
    /\ held[Watcher] # NoMailbox
    /\ IF count = 0
       THEN /\ gm' = [gm EXCEPT !.at = "finally", !.total = count]
            /\ UNCHANGED <<cmdQueue, pc>>
       ELSE /\ Awaits("fetchAll")
            /\ gm' = [gm EXCEPT !.at = "fetchAll", !.total = count,
                                !.range = <<GmStart(count, gm.limit), "*">>,
                                !.fetches = @ + 1]
    /\ UNCHANGED <<connState, mailbox, selectedBy, held, lockQueue, running,
                   inLoop, todo, handler, script, err, channel, fixed, batch,
                   tree, outcome>>

\* fetchAll has returned and with it getMessages
GmFetched ==
    /\ gm.at = "fetchAll"
    /\ pc[Watcher] = "ready"
    /\ gm' = [gm EXCEPT !.at = "finally"]
    /\ UNCHANGED <<clientVars, fixed, batch, tree, outcome>>

\* finally { lock.release() }
GmFinally ==
    /\ gm.at = "finally"
    /\ pc[Watcher] = "ready"
    /\ Unlock(Watcher)
    /\ gm' = [gm EXCEPT !.at = "end", !.releases = @ + 1]
    /\ UNCHANGED <<fixed, batch, tree, outcome>>

InitGm ==
    /\ routine = [t \in Tasks |-> NoRoutine]
    /\ releases = [t \in Tasks |-> 0]
    /\ err = "none"
    /\ channel = "none"
    /\ options = DefaultOptions
    /\ starttls = TRUE
    /\ count \in 0..MaxTotal
    /\ job = NoJob
    /\ result = [k \in FetchKinds |-> NoResult]
    /\ connected = FALSE
    /\ listener = FALSE
    /\ event = NoEvent
    /\ store = EmptyStore
    /\ cache = NoCache
    /\ used = NoUse
    /\ batch = NoBatch
    /\ tree = NoTree
    /\ outcome = NoOutcome
    /\ gm \in {[NoCall EXCEPT !.limit = l] : l \in 1..MaxLimit}
    /\ connState = "Disconnected"
    /\ mailbox = NoMailbox
    /\ selectedBy = "none"
    /\ held = [t \in Tasks |-> NoMailbox]
    /\ lockQueue = <<>>
    /\ running = NoCmd
    /\ cmdQueue = <<>>
    /\ pc = [t \in Tasks |-> "ready"]
    /\ inLoop = [t \in Tasks |-> FALSE]
    /\ todo = NotFetched
    /\ handler = FALSE
    /\ script = "any"

NextGm ==
    \/ gm.at = "out" /\ Connect(Watcher)
    \/ AuthSuccess
    \/ gm.at = "out" /\ held[Watcher] = NoMailbox
            /\ GetMailboxLock(Watcher, "INBOX")
    \/ GrantLock
    \/ GmBody
    \/ StartCmd
    \/ Complete
    \/ GmFetched
    \/ GmFinally
    \/ gm.at = "end" /\ IssueCmd(Watcher, "logout", NoMailbox)
    \/ CompleteLogout

SpecGm == InitGm /\ [][NextGm]_vars

\* the sequence numbers the range start:* names in a mailbox of total
\* messages, '*' being the last message
Named(range, total) == range[1]..total

\* C27: with no messages getMessages fetches nothing; otherwise it fetches
\* once, the range start:* with start = max(1, total - limit + 1), which
\* starts at 1 or above and names the last min(total, limit) messages; in
\* both cases it releases the lock once.
C27_GetMessages ==
    /\ gm.at # "out" =>
        IF gm.total = 0
        THEN gm.fetches = 0 /\ gm.range = <<>>
        ELSE /\ gm.fetches = 1
             /\ gm.range[2] = "*"
             /\ gm.range[1] >= 1
             /\ gm.range[1] \in {1, gm.total - gm.limit + 1}
             /\ \E n \in {gm.total, gm.limit} :
                    /\ n <= gm.total /\ n <= gm.limit
                    /\ Named(gm.range, gm.total) = (gm.total - n + 1)..gm.total
                    /\ Cardinality(Named(gm.range, gm.total)) = n
    /\ \A c \in InFlight : c.kind = "fetchAll" => gm.total > 0
    /\ gm.at = "end" => gm.releases = 1 /\ held[Watcher] = NoMailbox
    /\ gm.at \in {"fetchAll", "finally"} =>
            gm.releases = 0 /\ held[Watcher] # NoMailbox

\* the call has ended after fetching with a limit above the number of
\* messages
C27_Witness ==
    /\ gm.at = "end"
    /\ gm.limit = MaxLimit
    /\ gm.total = MaxLimit - 1
    /\ gm.range = <<1, "*">>

\* the call has ended without fetching
C27_WitnessEmpty ==
    /\ gm.at = "end"
    /\ gm.total = 0
    /\ connState = "Authenticated"
\* ------------------------------------------------------------ disableAutoIdle
\* Clients built with disableAutoIdle true and false: they connect, take and
\* release locks, run commands and call idle().

InitIdle ==
    /\ routine = [t \in Tasks |-> NoRoutine]
    /\ releases = [t \in Tasks |-> 0]
    /\ err = "none"
    /\ channel = "none"
    /\ options \in {[DefaultOptions EXCEPT !.disableAutoIdle = b] : b \in BOOLEAN}
    /\ starttls = TRUE
    /\ count = 0
    /\ job = NoJob
    /\ result = [k \in FetchKinds |-> NoResult]
    /\ connected = FALSE
    /\ listener = FALSE
    /\ event = NoEvent
    /\ store = EmptyStore
    /\ cache = NoCache
    /\ used = NoUse
    /\ batch = NoBatch
    /\ tree = NoTree
    /\ outcome = NoOutcome
    /\ gm = NoCall
    /\ connState = "Disconnected"
    /\ mailbox = NoMailbox
    /\ selectedBy = "none"
    /\ held = [t \in Tasks |-> NoMailbox]
    /\ lockQueue = <<>>
    /\ running = NoCmd
    /\ cmdQueue = <<>>
    /\ pc = [t \in Tasks |-> "ready"]
    /\ inLoop = [t \in Tasks |-> FALSE]
    /\ todo = NotFetched
    /\ handler = FALSE
    /\ script = "any"

NextIdle ==
    \/ \E t \in Tasks : Connect(t)
    \/ AuthSuccess
    \/ Drop
    \/ \E t \in Tasks, p \in Paths :
            held[t] = NoMailbox /\ GetMailboxLock(t, p)
    \/ GrantLock
    \/ \E t \in Tasks :
            held[t] # NoMailbox /\ IssueCmd(t, "fetchAll", NoMailbox)
    \/ StartCmd
    \/ Complete
    \/ \E t \in Tasks : Release(t)
    \/ AutoIdle
    \/ \E t \in Tasks : Idle(t)

\* the inactivity timer fires when the connection stays inactive
FairIdle == WF_vars(AutoIdle)

SpecIdle == InitIdle /\ [][NextIdle]_vars /\ FairIdle

\* a mailbox is selected, no command executes and none waits
Inactive == connState = "Selected" /\ running = NoCmd /\ cmdQueue = <<>>

\* C28: with disableAutoIdle true the connection enters Idling only by an
\* idle() call; it enters Idling without such a call only with
\* disableAutoIdle false, a mailbox selected and no command executing or
\* waiting; and with disableAutoIdle false a connection that is inactive with
\* a mailbox selected gets to Idling unless it stops being inactive.
C28_AutoIdle ==
    /\ [][options.disableAutoIdle /\ connState # "Idling"
                /\ connState' = "Idling" => ByIdleCall]_vars
    /\ [][connState # "Idling" /\ connState' = "Idling" /\ ~ByIdleCall
                => ~options.disableAutoIdle /\ Inactive]_vars
    /\ (~options.disableAutoIdle /\ Inactive)
            ~> (connState = "Idling" \/ ~Inactive)

\* a client built with disableAutoIdle true is Idling after its idle() call
C28_Witness ==
    /\ options.disableAutoIdle
    /\ connState = "Idling"
    /\ \E t \in Tasks : pc[t] = "waitIdle"

\* a client built with disableAutoIdle false is Idling without any idle() call
C28_WitnessAuto ==
    /\ ~options.disableAutoIdle
    /\ connState = "Idling"
    /\ \A t \in Tasks : pc[t] # "waitIdle"

====
